---------------------------- MODULE Spec2Model ----------------------------
(***************************************************************************)
(* A model of the tiger-rs compiler core: the semantic analyzer            *)
(* (src/src/ty/check.rs), the IR translator                                *)
(* (src/src/translate/translate.rs) and the instruction tiler              *)
(* (src/src/assemble/tile.rs).                                             *)
(*                                                                         *)
(* ASTs, types, IR trees and instructions are tuples whose first element   *)
(* is the variant's name.  The recursive traversals of the source are      *)
(* RECURSIVE operators that thread the traversal's mutable state (the      *)
(* fields of Checker / Translator / Tiler) through every call, in the      *)
(* order the source evaluates.                                             *)
(***************************************************************************)
EXTENDS Integers, Sequences, FiniteSets, TLC

VARIABLES
    pc,      \* position of the driver: "init", "checked", "translated", "canonical", "tiled"
    prog,    \* the AST handed to Checker::check and Translator::translate
    chk,     \* result of Checker::check: [err, ty, mutable, st]
    trn,     \* result of Translator::translate: the Translator's final state
    unit,    \* the ir::Unit body handed to tile (a sequence of ir::Stm)
    tiler,   \* the Tiler: [asm, spilled_args, panic, next, at]
    run      \* the translated program at run time: its activations, or the
             \* position, variables and counters of the code being executed

vars == <<pc, prog, chk, trn, unit, tiler, run>>

\* v under the name K gives it: a value computed once, then used
With(v, K(_)) == K(v)

Min(S) == CHOOSE x \in S : \A y \in S : x <= y
Max(S) == CHOOSE x \in S : \A y \in S : y <= x

(***************************************************************************)
(* AST (src/src/ast.rs).  Spans are dropped: they only decorate errors.    *)
(***************************************************************************)
Break            == <<"Break">>
Nil              == <<"Nil">>
IntE(n)          == <<"Int", n>>
StrE(s)          == <<"Str", s>>
VarE(v)          == <<"Var", v>>
Call(f, args)    == <<"Call", f, args>>
Neg(e)           == <<"Neg", e>>
Bin(l, op, r)    == <<"Bin", l, op, r>>
Rec(n, fields)   == <<"Rec", n, fields>>        \* fields: sequence of <<name, exp>>
SeqE(es)         == <<"Seq", es>>
Ass(v, e)        == <<"Ass", v, e>>
If(g, t)         == <<"If", g, t, <<>>>>
IfElse(g, t, o)  == <<"If", g, t, <<o>>>>
While(g, b)      == <<"While", g, b>>
For(n, esc, lo, hi, b) == <<"For", n, esc, lo, hi, b>>
Let(decs, b)     == <<"Let", decs, b>>
Arr(n, size, init) == <<"Arr", n, size, init>>

Simple(n)        == <<"Simple", n>>
Field(v, f)      == <<"Field", v, f>>
Index(v, e)      == <<"Index", v, e>>

\* FunDec: args is a sequence of FieldDec <<name, escape, ty>>; rets is <<>> or <<sym>>
FunDec(n, args, rets, body) == [name |-> n, args |-> args, rets |-> rets, body |-> body]
DecFun(funs)     == <<"Fun", funs>>
DecVar(n, esc, ty, init) == <<"VarDec", n, esc, ty, init>>   \* ty is <<>> or <<sym>>
DecType(decs)    == <<"Type", decs>>            \* decs: sequence of <<name, Type>>
TypeName(n)      == <<"TName", n>>
TypeRec(fds)     == <<"TRec", fds>>             \* fds: sequence of <<name, ty-name>>
TypeArr(n)       == <<"TArr", n>>

UnitE == SeqE(<<>>)

\* no operator counted as an equality; the equalities alone counted as comparisons
is_equality_none(op)     == FALSE
is_comparison_equal(op)  == op \in {"Eq", "Neq"}

is_equality(op)   == op \in {"Eq", "Neq"}
is_comparison(op) == op \in {"Eq", "Neq", "Gt", "Ge", "Lt", "Le"}

(***************************************************************************)
(* Ty.  Name's body is <<>> (None) or <<ty>> (Some).                       *)
(***************************************************************************)
TyNil   == <<"Nil">>
TyInt   == <<"Int">>
TyStr   == <<"Str">>
TyUnit  == <<"Unit">>
TyArr(elem, id)   == <<"Arr", elem, id>>
TyRec(fields, id) == <<"Rec", fields, id>>      \* fields: sequence of <<name, ty>>
TyName(n, body)   == <<"Name", n, body>>

\* derived PartialEq: structural, identity included
TyEq(a, b) == a[1] = b[1] /\ a = b

\* Ty::subtypes: reflexive, and Nil subtypes every Rec
subtypes(a, b) == TyEq(a, b) \/ (a[1] = "Nil" /\ b[1] = "Rec")

(***************************************************************************)
(* Lexically scoped contexts: a stack of scopes, each a sequence of        *)
(* <<symbol, value>> with the latest insertion last.  A lookup returns     *)
(* <<>> (unbound) or <<value>>.                                            *)
(***************************************************************************)
ScopeGet(scope, name) ==
    LET idx == {i \in 1..Len(scope) : scope[i][1] = name}
    IN  IF idx = {} THEN <<>> ELSE <<scope[Max(idx)][2]>>

CtxGet(ctx, name) ==
    LET hits == {i \in 1..Len(ctx) : Len(ScopeGet(ctx[i], name)) > 0}
    IN  IF hits = {} THEN <<>> ELSE ScopeGet(ctx[Max(hits)], name)

CtxPush(ctx) == Append(ctx, <<>>)
CtxPop(ctx)  == SubSeq(ctx, 1, Len(ctx) - 1)
CtxInsert(ctx, name, val) ==
    [ctx EXCEPT ![Len(ctx)] = Append(@, <<name, val>>)]

BindVar(ty, mutable) == <<"Var", ty, mutable>>
BindFun(args, ret)   == <<"Fun", args, ret>>

\* a loop index bound like a declared variable
for_binding_mutable == BindVar(TyInt, TRUE)

\* Exp::For, line 274: the binding of the loop index, Binding::Var(Ty::Int, false)
for_binding == BindVar(TyInt, FALSE)

\* VarContext::default(): the runtime bindings
VarContextDefault ==
    << << <<"print", BindFun(<<TyStr>>, TyUnit)>>,
          <<"flush", BindFun(<<>>, TyUnit)>>,
          <<"getchar", BindFun(<<>>, TyStr)>>,
          <<"ord", BindFun(<<TyStr>>, TyInt)>>,
          <<"chr", BindFun(<<TyInt>>, TyStr)>>,
          <<"size", BindFun(<<TyStr>>, TyInt)>>,
          <<"substring", BindFun(<<TyStr, TyInt, TyInt>>, TyStr)>>,
          <<"concat", BindFun(<<TyStr, TyStr>>, TyStr)>>,
          <<"not", BindFun(<<TyInt>>, TyInt)>>,
          <<"exit", BindFun(<<TyInt>>, TyUnit)>> >> >>

\* TypeContext::default(): the primitive types
TypeContextDefault ==
    << << <<"int", TyInt>>, <<"string", TyStr>> >> >>

TOk(ty)   == [err |-> "", ty |-> ty]
TErr(k)   == [err |-> k, ty |-> TyUnit]

\* TypeContext::get_partial: the binding as it is, Name(_, _) included
get_partial(tc, name) ==
    LET t == CtxGet(tc, name)
    IN  IF Len(t) = 0 THEN TErr("UnboundType") ELSE TOk(t[1])

\* TypeContext::trace_full: unwrap Name through its body; a Name whose body
\* is still None is looked up again by its symbol, and a symbol met twice
\* on the way without a constructor in between is a cycle
RECURSIVE trace_from(_, _, _)
trace_from(tc, ty, seen) ==
    IF ty[1] # "Name" THEN TOk(ty)
    ELSE IF Len(ty[3]) > 0 THEN trace_from(tc, ty[3][1], seen \cup {ty[2]})
    ELSE IF ty[2] \in seen THEN TErr("UnboundType")
    ELSE LET t == CtxGet(tc, ty[2])
         IN  IF Len(t) = 0 THEN TErr("UnboundType")
             ELSE IF t[1][1] = "Name" /\ Len(t[1][3]) = 0 THEN TErr("UnboundType")
             ELSE trace_from(tc, t[1], seen \cup {ty[2]})

trace_full(tc, ty) == trace_from(tc, ty, {})

\* TypeContext::get_full
get_full(tc, name) ==
    LET t == CtxGet(tc, name)
    IN  IF Len(t) = 0 THEN TErr("UnboundType") ELSE trace_full(tc, t[1])

\* VarContext::get_var: (ty, mutable) of a variable binding
get_var(vc, name) ==
    LET b == CtxGet(vc, name)
    IN  IF Len(b) = 0 THEN [err |-> "UnboundVar", ty |-> TyUnit, mutable |-> TRUE]
        ELSE IF b[1][1] # "Var" THEN [err |-> "NotVar", ty |-> TyUnit, mutable |-> TRUE]
        ELSE [err |-> "", ty |-> b[1][2], mutable |-> b[1][3]]

\* VarContext::get_fun: (arg-tys, ret-ty) of a function binding
get_fun(vc, name) ==
    LET b == CtxGet(vc, name)
    IN  IF Len(b) = 0 THEN [err |-> "UnboundFunction", args |-> <<>>, ret |-> TyUnit]
        ELSE IF b[1][1] # "Fun" THEN [err |-> "NotFunction", args |-> <<>>, ret |-> TyUnit]
        ELSE [err |-> "", args |-> b[1][2], ret |-> b[1][3]]

(***************************************************************************)
(* Checker (src/src/ty/check.rs).  st is the Checker: loops is the length  *)
(* of `loops: Vec<()>`, vc and tc the two contexts, uuid the number of     *)
(* identities Uuid::new_v4() has handed out.  Every check_* returns        *)
(* [err, ty, mutable, st]: err = "" is Ok(Typed{ty, mutable}), anything    *)
(* else is the `?`/`return error(..)` exit with that TypeError.            *)
(***************************************************************************)
CheckerNew == [loops |-> 0, vc |-> VarContextDefault, tc |-> TypeContextDefault, uuid |-> 0]

ok(ty, st)          == [err |-> "", ty |-> ty, mutable |-> TRUE, st |-> st]
typed(ty, m, st)    == [err |-> "", ty |-> ty, mutable |-> m, st |-> st]
error(kind, st)     == [err |-> kind, ty |-> TyUnit, mutable |-> TRUE, st |-> st]

\* the variable scope left, the type scope kept
let_leave_vc_only(st) == [st EXCEPT !.vc = CtxPop(@)]

\* Exp::Let, lines 293-294: self.vc.pop(); self.tc.pop()
let_leave(st) == [st EXCEPT !.vc = CtxPop(@), !.tc = CtxPop(@)]

\* no declaration taken for a nil without annotation
unknown_nil_never(init_ty, ty) == FALSE

\* Dec::Var, line 394: nil initializer and no type annotation
unknown_nil(init_ty, ty) == TyEq(init_ty, TyNil) /\ Len(ty) = 0

check_unique(names) ==
    \A i, j \in 1..Len(names) : names[i] = names[j] => i = j

\* check_type: the Ty of a declared Type, with a fresh identity for Arr and Rec
RECURSIVE check_type_fields(_, _, _, _)
check_type_fields(fds, i, acc, st) ==
    IF i > Len(fds) THEN ok(TyRec(acc, st.uuid), [st EXCEPT !.uuid = @ + 1])
    ELSE With(get_partial(st.tc, fds[i][2]), LAMBDA t :
             IF t.err # "" THEN error(t.err, st)
             ELSE check_type_fields(fds, i + 1, Append(acc, <<fds[i][1], t.ty>>), st))

check_type(ty, st) ==
    CASE ty[1] = "TName" ->
            With(get_partial(st.tc, ty[2]), LAMBDA t :
                IF t.err # "" THEN error(t.err, st) ELSE ok(t.ty, st))
      [] ty[1] = "TArr" ->
            With(get_partial(st.tc, ty[2]), LAMBDA t :
                IF t.err # "" THEN error(t.err, st)
                ELSE ok(TyArr(t.ty, st.uuid), [st EXCEPT !.uuid = @ + 1]))
      [] ty[1] = "TRec" -> check_type_fields(ty[2], 1, <<>>, st)

RECURSIVE check_exp(_, _), check_var(_, _), check_dec(_, _), check_args(_, _, _, _),
          check_fields(_, _, _, _), check_seq(_, _, _), check_decs(_, _, _),
          check_fun_bodies(_, _, _)

check_var(var, st) ==
    CASE var[1] = "Simple" ->
            With(get_var(st.vc, var[2]), LAMBDA b :
                IF b.err # "" THEN error(b.err, st) ELSE typed(b.ty, b.mutable, st))
      [] var[1] = "Field" ->
            LET r == check_var(var[2], st)
            IN  IF r.err # "" THEN r
                ELSE IF r.ty[1] # "Rec" THEN error("NotRecord", r.st)
                ELSE LET fields == r.ty[2]
                         idx == {i \in 1..Len(fields) : fields[i][1] = var[3]}
                     IN  IF idx = {} THEN error("UnboundField", r.st)
                         ELSE With(trace_full(r.st.tc, fields[Min(idx)][2]), LAMBDA t :
                                  IF t.err # "" THEN error(t.err, r.st) ELSE ok(t.ty, r.st))
      [] var[1] = "Index" ->
            LET i == check_exp(var[3], st)
            IN  IF i.err # "" THEN i
                ELSE IF ~TyEq(i.ty, TyInt) THEN error("IndexMismatch", i.st)
                ELSE LET a == check_var(var[2], i.st)
                     IN  IF a.err # "" THEN a
                         ELSE IF a.ty[1] = "Arr" THEN ok(a.ty[2], a.st)
                         ELSE error("NotArr", a.st)

\* Exp::Call, lines 116-119: each argument against its formal
check_args(args, args_ty, i, st) ==
    IF i > Len(args) THEN ok(TyUnit, st)
    ELSE LET a == check_exp(args[i], st)
         IN  IF a.err # "" THEN a
             ELSE IF ~subtypes(a.ty, args_ty[i]) THEN error("CallMismatch", a.st)
             ELSE check_args(args, args_ty, i + 1, a.st)

\* Exp::Rec, lines 175-183: the field name - value pairs, zipped with the declaration
check_fields(fields, fields_ty, i, st) ==
    IF i > Len(fields) THEN ok(TyUnit, st)
    ELSE LET e == check_exp(fields[i][2], st)
         IN  IF e.err # "" THEN e
             ELSE IF fields[i][1] # fields_ty[i][1]
                  THEN With(trace_full(st.tc, fields_ty[i][2]), LAMBDA field_ty :
                           IF field_ty.err # "" THEN error(field_ty.err, e.st)
                           ELSE IF ~subtypes(e.ty, field_ty.ty) THEN error("FieldMismatch", e.st)
                           ELSE check_fields(fields, fields_ty, i + 1, e.st))
                  ELSE check_fields(fields, fields_ty, i + 1, e.st)

\* Exp::Seq, line 196: the intermediate expressions exps[i .. len-1)
check_seq(exps, i, st) ==
    IF i > Len(exps) - 1 THEN ok(TyUnit, st)
    ELSE LET e == check_exp(exps[i], st)
         IN  IF e.err # "" THEN e ELSE check_seq(exps, i + 1, e.st)

\* Exp::Let, line 291
check_decs(decs, i, st) ==
    IF i > Len(decs) THEN ok(TyUnit, st)
    ELSE With(check_dec(decs[i], st), LAMBDA d :
             IF d.err # "" THEN d ELSE check_decs(decs, i + 1, d.st))

check_exp(exp, st) ==
    CASE exp[1] = "Nil"   -> ok(TyNil, st)
      [] exp[1] = "Int"   -> ok(TyInt, st)
      [] exp[1] = "Str"   -> ok(TyStr, st)
      [] exp[1] = "Var"   -> check_var(exp[2], st)
      [] exp[1] = "Break" -> IF st.loops = 0 THEN error("Break", st) ELSE ok(TyUnit, st)
      [] exp[1] = "Call"  ->
            With(get_fun(st.vc, exp[2]), LAMBDA f :
                IF f.err # "" THEN error(f.err, st)
                ELSE IF Len(exp[3]) # Len(f.args) THEN error("CallMismatch", st)
                ELSE With(check_args(exp[3], f.args, 1, st), LAMBDA a :
                         IF a.err # "" THEN a ELSE ok(f.ret, a.st)))
      [] exp[1] = "Neg"   ->
            LET e == check_exp(exp[2], st)
            IN  IF e.err # "" THEN e
                ELSE IF ~TyEq(e.ty, TyInt) THEN error("Neg", e.st)
                ELSE ok(TyInt, e.st)
      [] exp[1] = "Bin"   ->
            LET l == check_exp(exp[2], st)
                r == check_exp(exp[4], l.st)
                op == exp[3]
            IN  IF l.err # "" THEN l
                ELSE IF r.err # "" THEN r
                ELSE LET lt == l.ty
                         rt == r.ty
                     IN  IF TyEq(lt, TyUnit) \/ TyEq(rt, TyUnit) \/ (TyEq(lt, TyNil) /\ TyEq(rt, TyNil))
                           THEN error("BinaryMismatch", r.st)
                         ELSE IF is_equality(op) /\ (subtypes(lt, rt) \/ subtypes(rt, lt))
                           THEN ok(TyInt, r.st)
                         ELSE IF is_comparison(op) /\ (TyEq(lt, TyInt) \/ TyEq(lt, TyStr)) /\ TyEq(lt, rt)
                           THEN ok(TyInt, r.st)
                         ELSE IF TyEq(lt, TyInt) /\ TyEq(rt, TyInt)
                           THEN ok(TyInt, r.st)
                         ELSE error("BinaryMismatch", r.st)
      [] exp[1] = "Rec"   ->
            With(get_full(st.tc, exp[2]), LAMBDA t :
                IF t.err # "" THEN error(t.err, st)
                ELSE IF t.ty[1] # "Rec" THEN error("NotRecord", st)
                ELSE IF Len(exp[3]) # Len(t.ty[2]) THEN error("FieldMismatch", st)
                ELSE With(check_fields(exp[3], t.ty[2], 1, st), LAMBDA f :
                         IF f.err # "" THEN f
                         ELSE With(get_full(f.st.tc, exp[2]), LAMBDA u :
                                  IF u.err # "" THEN error(u.err, f.st) ELSE ok(u.ty, f.st))))
      [] exp[1] = "Seq"   ->
            IF Len(exp[2]) = 0 THEN ok(TyUnit, st)
            ELSE With(check_seq(exp[2], 1, st), LAMBDA r :
                     IF r.err # "" THEN r
                     ELSE check_exp(exp[2][Len(exp[2])], r.st))
      [] exp[1] = "Ass"   ->
            With(check_var(exp[2], st), LAMBDA v :
                IF v.err # "" THEN v
                ELSE IF ~v.mutable THEN error("AssignImmutable", v.st)
                ELSE LET e == check_exp(exp[3], v.st)
                     IN  IF e.err # "" THEN e
                         ELSE IF ~subtypes(e.ty, v.ty) THEN error("VarMismatch", e.st)
                         ELSE ok(TyUnit, e.st))
      [] exp[1] = "If"    ->
            LET g == check_exp(exp[2], st)
            IN  IF g.err # "" THEN g
                ELSE IF ~TyEq(g.ty, TyInt) THEN error("GuardMismatch", g.st)
                ELSE LET t == check_exp(exp[3], g.st)
                     IN  IF t.err # "" THEN t
                         ELSE IF Len(exp[4]) > 0
                           THEN LET o == check_exp(exp[4][1], t.st)
                                IN  IF o.err # "" THEN o
                                    ELSE IF ~subtypes(t.ty, o.ty) /\ ~subtypes(o.ty, t.ty)
                                      THEN error("BranchMismatch", o.st)
                                    ELSE ok(t.ty, o.st)
                           ELSE IF ~TyEq(t.ty, TyUnit) THEN error("UnusedBranch", t.st)
                                ELSE ok(TyUnit, t.st)
      [] exp[1] = "While" ->
            LET g == check_exp(exp[2], st)
            IN  IF g.err # "" THEN g
                ELSE IF ~TyEq(g.ty, TyInt) THEN error("GuardMismatch", g.st)
                ELSE \* self.loops.push(()), and no pop on any path
                     LET b == check_exp(exp[3], [g.st EXCEPT !.loops = @ + 1])
                     IN  IF b.err # "" THEN b
                         ELSE IF ~TyEq(b.ty, TyUnit) THEN error("UnusedWhileBody", b.st)
                         ELSE ok(TyUnit, b.st)
      [] exp[1] = "For"   ->
            LET lo == check_exp(exp[4], st)
            IN  IF lo.err # "" THEN lo
                ELSE IF ~TyEq(lo.ty, TyInt) THEN error("ForBound", lo.st)
                ELSE LET hi == check_exp(exp[5], lo.st)
                     IN  IF hi.err # "" THEN hi
                         ELSE IF ~TyEq(hi.ty, TyInt) THEN error("ForBound", hi.st)
                         ELSE \* vc.push(); vc.insert(name, Var(Int, false)); loops.push(())
                              LET st1 == [hi.st EXCEPT
                                            !.vc = CtxInsert(CtxPush(@), exp[2], for_binding),
                                            !.loops = @ + 1]
                                  b == check_exp(exp[6], st1)
                              IN  IF b.err # "" THEN b
                                  ELSE IF ~TyEq(b.ty, TyUnit) THEN error("UnusedForBody", b.st)
                                  ELSE \* vc.pop(), and no loops.pop()
                                       ok(TyUnit, [b.st EXCEPT !.vc = CtxPop(@)])
      [] exp[1] = "Let"   ->
            With(check_decs(exp[2], 1, [st EXCEPT !.vc = CtxPush(@), !.tc = CtxPush(@)]),
                 LAMBDA d :
                IF d.err # "" THEN d
                ELSE [check_exp(exp[3], d.st) EXCEPT !.st = let_leave(@)])
      [] exp[1] = "Arr"   ->
            With(get_full(st.tc, exp[2]), LAMBDA t :
                IF t.err # "" THEN error(t.err, st)
                ELSE IF t.ty[1] # "Arr" THEN error("NotArr", st)
                ELSE LET size == check_exp(exp[3], st)
                     IN  IF size.err # "" THEN size
                         ELSE IF ~TyEq(size.ty, TyInt) THEN error("ForBound", size.st)
                         ELSE LET init == check_exp(exp[4], size.st)
                              IN  IF init.err # "" THEN init
                                  ELSE IF ~subtypes(init.ty, t.ty[2]) THEN error("ArrMismatch", init.st)
                                  ELSE With(get_full(init.st.tc, exp[2]), LAMBDA u :
                                           IF u.err # "" THEN error(u.err, init.st)
                                           ELSE ok(u.ty, init.st)))

\* Dec::Fun, lines 339-357: the headers of the group
RECURSIVE check_fun_args(_, _, _, _), check_fun_headers(_, _, _), insert_formals(_, _, _),
          check_type_bodies(_, _, _), insert_type_names(_, _, _)
check_fun_args(args, i, acc, st) ==
    IF i > Len(args) THEN [err |-> "", tys |-> acc]
    ELSE With(get_full(st.tc, args[i][3]), LAMBDA t :
             IF t.err # "" THEN [err |-> t.err, tys |-> acc]
             ELSE check_fun_args(args, i + 1, Append(acc, t.ty), st))

fun_ret(fun, st) ==
    IF Len(fun.rets) = 0 THEN TOk(TyUnit) ELSE get_full(st.tc, fun.rets[1])

check_fun_headers(funs, i, st) ==
    IF i > Len(funs) THEN ok(TyUnit, st)
    ELSE With(check_fun_args(funs[i].args, 1, <<>>, st), LAMBDA args :
             IF args.err # "" THEN error(args.err, st)
             ELSE With(fun_ret(funs[i], st), LAMBDA ret :
                      IF ret.err # "" THEN error(ret.err, st)
                      ELSE check_fun_headers(funs, i + 1,
                             [st EXCEPT !.vc = CtxInsert(@, funs[i].name,
                                                         BindFun(args.tys, ret.ty))])))

\* Dec::Fun, lines 364-368: the parameter bindings of one body
insert_formals(args, i, st) ==
    IF i > Len(args) THEN ok(TyUnit, st)
    ELSE With(get_full(st.tc, args[i][3]), LAMBDA t :
             IF t.err # "" THEN error(t.err, st)
             ELSE insert_formals(args, i + 1,
                    [st EXCEPT !.vc = CtxInsert(@, args[i][1], BindVar(t.ty, TRUE))]))

\* Dec::Fun, lines 359-385: the bodies of the group
check_fun_bodies(funs, i, st) ==
    IF i > Len(funs) THEN ok(TyUnit, st)
    ELSE With(insert_formals(funs[i].args, 1, [st EXCEPT !.vc = CtxPush(@)]), LAMBDA f :
             IF f.err # "" THEN f
             ELSE LET body == check_exp(funs[i].body, f.st)
                      st1 == [body.st EXCEPT !.vc = CtxPop(@)]
                  IN  IF body.err # "" THEN body
                      ELSE With(fun_ret(funs[i], st1), LAMBDA ret :
                               IF ret.err # "" THEN error(ret.err, st1)
                               ELSE IF ~subtypes(body.ty, ret.ty) THEN error("ReturnMismatch", st1)
                               ELSE check_fun_bodies(funs, i + 1, st1)))

\* Dec::Type, lines 423-426: every name of the group as Name(name, None)
insert_type_names(decs, i, st) ==
    IF i > Len(decs) THEN st
    ELSE insert_type_names(decs, i + 1,
            [st EXCEPT !.tc = CtxInsert(@, decs[i][1], TyName(decs[i][1], <<>>))])

\* Dec::Type, lines 428-432: every body, rebound as Name(name, Some(body))
check_type_bodies(decs, i, st) ==
    IF i > Len(decs) THEN ok(TyUnit, st)
    ELSE With(check_type(decs[i][2], st), LAMBDA t :
             IF t.err # "" THEN t
             ELSE check_type_bodies(decs, i + 1,
                    [t.st EXCEPT !.tc = CtxInsert(@, decs[i][1], TyName(decs[i][1], <<t.ty>>))]))

check_dec(dec, st) ==
    CASE dec[1] = "Fun" ->
            IF ~check_unique([i \in 1..Len(dec[2]) |-> dec[2][i].name])
              THEN error("FunConflict", st)
            ELSE With(check_fun_headers(dec[2], 1, st), LAMBDA h :
                     IF h.err # "" THEN h ELSE check_fun_bodies(dec[2], 1, h.st))
      [] dec[1] = "VarDec" ->
            LET init == check_exp(dec[5], st)
            IN  IF init.err # "" THEN init
                ELSE IF unknown_nil(init.ty, dec[4]) THEN error("UnknownNil", init.st)
                ELSE IF Len(dec[4]) = 0
                  THEN ok(TyUnit, [init.st EXCEPT !.vc = CtxInsert(@, dec[2], BindVar(init.ty, TRUE))])
                ELSE With(get_full(init.st.tc, dec[4][1]), LAMBDA name_ty :
                         IF name_ty.err # "" THEN error(name_ty.err, init.st)
                         ELSE IF ~subtypes(init.ty, name_ty.ty) THEN error("VarMismatch", init.st)
                         ELSE ok(TyUnit, [init.st EXCEPT !.vc = CtxInsert(@, dec[2],
                                                                 BindVar(name_ty.ty, TRUE))]))
      [] dec[1] = "Type" ->
            IF ~check_unique([i \in 1..Len(dec[2]) |-> dec[2][i][1]])
              THEN error("TypeConflict", st)
            ELSE check_type_bodies(dec[2], 1, insert_type_names(dec[2], 1, st))

\* Checker::check
check(ast) == check_exp(ast, CheckerNew)

(***************************************************************************)
(* IR (ir::Exp, ir::Stm, ir::Tree), labels and temps.                      *)
(***************************************************************************)
WORD_SIZE == 8

IConst(n)          == <<"Const", n>>
IName(l)           == <<"Name", l>>
ITemp(t)           == <<"Temp", t>>
IBinop(l, op, r)   == <<"Binop", l, op, r>>
IMem(e)            == <<"Mem", e>>
ICall(f, args)     == <<"Call", f, args>>
IESeq(s, e)        == <<"ESeq", s, e>>

SMove(src, dst)    == <<"Move", src, dst>>
SExp(e)            == <<"Exp", e>>
SJump(e, ls)       == <<"Jump", e, ls>>
SCJump(l, op, r, t, f) == <<"CJump", l, op, r, t, f>>
SSeq(stms)         == <<"Seq", stms>>
SLabel(l)          == <<"Label", l>>
SComment(s)        == <<"Comment", s>>

Ex(e)              == <<"Ex", e>>
Nx(s)              == <<"Nx", s>>
Cx(l, op, r)       == <<"Cx", l, op, r>>   \* the thunk |t, f| CJump(l, op, r, t, f)

\* Label::from_fixed(name) and Label::from_str(hint), the n-th fresh name
from_fixed(name)   == <<"Fixed", name>>
LabelFromStr(hint, n) == <<"L", hint, n>>
\* Temp::Reg(reg) and Temp::from_str(hint), the n-th fresh name
Reg(r)             == <<"Reg", r>>
TempFromStr(hint, n) == <<"T", hint, n>>

RBP == ITemp(Reg("RBP"))

(***************************************************************************)
(* Frame: label, the variables it holds with their access (latest last),   *)
(* the running offset.  An escaping variable lives at RBP - offset, any    *)
(* other in a fresh temp.                                                  *)
(***************************************************************************)
InFrame(k) == <<"InFrame", k>>
InReg(t)   == <<"InReg", t>>

\* the access expression of `access` relative to the frame pointer `base`
AccessExp(access, base) ==
    IF access[1] = "InFrame"
      THEN IMem(IBinop(base, "Sub", IConst(access[2])))
      ELSE ITemp(access[2])

\* Frame::allocate: [frame, exp, next]
FrameAllocate(frame, name, escape, next) ==
    IF escape
      THEN LET off == frame.offset + WORD_SIZE
           IN  [frame |-> [frame EXCEPT !.map = Append(@, <<name, InFrame(off)>>), !.offset = off],
                exp   |-> AccessExp(InFrame(off), RBP),
                next  |-> next]
      ELSE LET t == TempFromStr(name, next)
           IN  [frame |-> [frame EXCEPT !.map = Append(@, <<name, InReg(t)>>)],
                exp   |-> ITemp(t),
                next  |-> next + 1]

\* Frame::new: every formal allocated in order; [frame, next]
RECURSIVE FrameFormals(_, _, _, _)
FrameFormals(frame, formals, i, next) ==
    IF i > Len(formals) THEN [frame |-> frame, next |-> next]
    ELSE LET a == FrameAllocate(frame, formals[i][1], formals[i][2], next)
         IN  FrameFormals(a.frame, formals, i + 1, a.next)

FrameNew(label, formals, next) ==
    FrameFormals([label |-> label, formals |-> formals, map |-> <<>>, offset |-> 0],
                 formals, 1, next)

\* Frame::contains
FrameContains(frame, name) == Len(ScopeGet(frame.map, name)) > 0

\* Frame::get: the access of `name` relative to `base`; <<>> when the frame
\* does not hold `name` (an internal error)
FrameGet(frame, name, base) ==
    LET a == ScopeGet(frame.map, name)
    IN  IF Len(a) = 0 THEN <<>> ELSE <<AccessExp(a[1], base)>>

(***************************************************************************)
(* FnContext: symbol -> Call::Function(label) | Call::Extern(label).       *)
(***************************************************************************)
CallFunction(l) == <<"Function", l>>
CallExtern(l)   == <<"Extern", l>>

Externs == <<"malloc", "init_array", "print", "flush", "getchar", "ord", "chr",
             "size", "substring", "concat", "not", "exit">>

\* FnContext::default(): the runtime shim, under its fixed names
FnContextDefault ==
    << [i \in 1..Len(Externs) |-> <<Externs[i], CallExtern(from_fixed(Externs[i]))>>] >>

(***************************************************************************)
(* Translator (src/src/translate/translate.rs).  st is the Translator:     *)
(* data, done, loops, frames, fc, tc as in the source; next is the number  *)
(* of fresh labels and temps handed out, uuid the number of identities;    *)
(* panic is "" or the message of the internal-error exit taken.  exits and *)
(* log are history: exits mirrors `loops` with the exit label of each      *)
(* enclosing loop, log records what was emitted for each break, simple     *)
(* variable and call, and for each function its label, the label of the    *)
(* frame it was declared in, the depth of the frame stack there, and its   *)
(* place in its group.                                                     *)
(***************************************************************************)
TranslatorNew ==
    [data   |-> <<>>,
     done   |-> <<>>,
     loops  |-> <<>>,
     frames |-> <<FrameNew(from_fixed("main"), <<>>, 0).frame>>,
     fc     |-> FnContextDefault,
     tc     |-> TypeContextDefault,
     uuid   |-> 0,
     next   |-> 0,
     panic  |-> "",
     exits  |-> <<>>,
     log    |-> <<>>]

T(tree, st)    == [tree |-> tree, st |-> st]
Panic(msg, st) == [tree |-> Ex(IConst(0)), st |-> [st EXCEPT !.panic = IF @ = "" THEN msg ELSE @]]
Last(s)        == s[Len(s)]
Fresh(st, k)   == [st EXCEPT !.next = @ + k]
Log(st, entry) == [st EXCEPT !.log = Append(@, entry)]

\* From<Tree> for Exp: [exp, st]
into_exp(tree, st) ==
    CASE tree[1] = "Ex" -> [exp |-> tree[2], st |-> st]
      [] tree[1] = "Nx" -> [exp |-> IESeq(tree[2], IConst(0)), st |-> st]
      [] tree[1] = "Cx" ->
            LET r == ITemp(TempFromStr("CX_RESULT", st.next))
                t == LabelFromStr("CX_TRUE", st.next + 1)
                f == LabelFromStr("CX_FALSE", st.next + 2)
            IN  [exp |-> IESeq(SSeq(<<SMove(IConst(1), r),
                                       SCJump(tree[2], tree[3], tree[4], t, f),
                                       SLabel(f),
                                       SMove(IConst(0), r),
                                       SLabel(t)>>), r),
                 st  |-> Fresh(st, 3)]

\* From<Tree> for Stm: [stm, st]
into_stm(tree, st) ==
    CASE tree[1] = "Ex" -> [stm |-> SExp(tree[2]), st |-> st]
      [] tree[1] = "Nx" -> [stm |-> tree[2], st |-> st]
      [] tree[1] = "Cx" ->
            LET l == LabelFromStr("CX_EXIT", st.next)
            IN  [stm |-> SSeq(<<SCJump(tree[2], tree[3], tree[4], l, l), SLabel(l)>>),
                 st  |-> Fresh(st, 1)]

translate_binop(op) ==
    CASE op = "Add"  -> <<"Add">>
      [] op = "Sub"  -> <<"Sub">>
      [] op = "Mul"  -> <<"Mul">>
      [] op = "Div"  -> <<"Div">>
      [] op = "LAnd" -> <<"And">>
      [] op = "LOr"  -> <<"Or">>
      [] OTHER       -> <<>>

translate_relop(op) ==
    CASE op = "Eq"  -> <<"Eq">>
      [] op = "Neq" -> <<"Ne">>
      [] op = "Lt"  -> <<"Lt">>
      [] op = "Le"  -> <<"Le">>
      [] op = "Gt"  -> <<"Gt">>
      [] op = "Ge"  -> <<"Ge">>
      [] OTHER      -> <<>>

\* translate_type: [ty, st]; a missing name is an internal error
RECURSIVE translate_type_fields(_, _, _, _)
translate_type_fields(fds, i, acc, st) ==
    IF i > Len(fds) THEN [ty |-> TyRec(acc, st.uuid), st |-> [st EXCEPT !.uuid = @ + 1]]
    ELSE LET t == get_partial(st.tc, fds[i][2])
         IN  IF t.err # "" THEN [ty |-> TyUnit, st |-> Panic("missing field type", st).st]
             ELSE translate_type_fields(fds, i + 1, Append(acc, <<fds[i][1], t.ty>>), st)

translate_type(ty, st) ==
    CASE ty[1] = "TName" ->
            LET t == get_partial(st.tc, ty[2])
            IN  IF t.err # "" THEN [ty |-> TyUnit, st |-> Panic("missing name type", st).st]
                ELSE [ty |-> t.ty, st |-> st]
      [] ty[1] = "TArr" ->
            LET t == get_partial(st.tc, ty[2])
            IN  IF t.err # "" THEN [ty |-> TyUnit, st |-> Panic("missing element type", st).st]
                ELSE [ty |-> TyArr(t.ty, st.uuid), st |-> [st EXCEPT !.uuid = @ + 1]]
      [] ty[1] = "TRec" -> translate_type_fields(ty[2], 1, <<>>, st)

RECURSIVE translate_exp(_, _), translate_var(_, _), translate_dec(_, _),
          translate_args(_, _, _, _), translate_fields(_, _, _, _, _),
          translate_rest(_, _, _, _), translate_decs(_, _, _, _),
          translate_funs(_, _, _), follow_links(_, _, _, _, _)

\* Var::Simple, lines 59-66: frames.iter().fold_while(rbp, ..), from frames[1] on
follow_links(frames, name, i, acc, st) ==
    IF i > Len(frames) THEN T(Ex(acc), st)
    ELSE IF FrameContains(frames[i], name)
      THEN T(Ex(FrameGet(frames[i], name, acc)[1]), st)
    ELSE LET link == FrameGet(frames[i], "STATIC_LINK", acc)
         IN  IF Len(link) = 0 THEN Panic("missing static link", st)
             ELSE follow_links(frames, name, i + 1, link[1], st)

\* the number of frames between the current frame and the innermost frame
\* that holds `name` (-1 when none does)
LexicalDistance(frames, name) ==
    LET holds == {i \in 1..Len(frames) : FrameContains(frames[i], name)}
    IN  IF holds = {} THEN -1 ELSE Len(frames) - Max(holds)

\* translate_var: [tree, ty, st]
translate_var(var, st) ==
    IF st.panic # "" THEN [tree |-> Ex(IConst(0)), ty |-> TyUnit, st |-> st]
    ELSE CASE var[1] = "Simple" ->
            With(get_full(st.tc, var[2]), LAMBDA var_ty :
                IF var_ty.err # ""
                  THEN [tree |-> Ex(IConst(0)), ty |-> TyUnit,
                        st |-> Panic("unbound variable", st).st]
                ELSE With(follow_links(st.frames, var[2], 1, RBP, st), LAMBDA r :
                         [tree |-> r.tree, ty |-> var_ty.ty,
                          st |-> Log(r.st, <<"var", var[2],
                                             LexicalDistance(st.frames, var[2]), r.tree[2]>>)]))
      [] var[1] = "Field" ->
            LET r == translate_var(var[2], st)
            IN  IF r.st.panic # "" THEN r
                ELSE IF r.ty[1] # "Rec"
                  THEN [tree |-> Ex(IConst(0)), ty |-> TyUnit, st |-> Panic("not a record", r.st).st]
                ELSE LET fields == r.ty[2]
                         idx == {i \in 1..Len(fields) : fields[i][1] = var[3]}
                     IN  IF idx = {}
                           THEN [tree |-> Ex(IConst(0)), ty |-> TyUnit,
                                 st |-> Panic("missing field", r.st).st]
                         ELSE With(into_exp(r.tree, r.st), LAMBDA rec :
                                  [tree |-> Ex(IMem(IBinop(rec.exp, "Add",
                                                           IConst((Min(idx) - 1) * WORD_SIZE)))),
                                   ty   |-> fields[Min(idx)][2],
                                   st   |-> rec.st])
      [] var[1] = "Index" ->
            LET a == translate_var(var[2], st)
            IN  IF a.st.panic # "" THEN a
                ELSE IF a.ty[1] # "Arr"
                  THEN [tree |-> Ex(IConst(0)), ty |-> TyUnit, st |-> Panic("not an array", a.st).st]
                ELSE LET i == translate_exp(var[3], a.st)
                         index == into_exp(i.tree, i.st)
                         array == into_exp(a.tree, index.st)
                         offset == IBinop(index.exp, "Mul", IConst(WORD_SIZE))
                     IN  [tree |-> Ex(IMem(IBinop(array.exp, "Add", offset))),
                          ty   |-> a.ty[2],
                          st   |-> array.st]

\* Exp::Call, lines 175-180: each argument translated and converted, in order
translate_args(args, i, acc, st) ==
    IF i > Len(args) THEN [exps |-> acc, st |-> st]
    ELSE LET a == translate_exp(args[i], st)
         IN  With(into_exp(a.tree, a.st), LAMBDA e :
                 translate_args(args, i + 1, Append(acc, e.exp), e.st))

\* Exp::Rec, lines 250-265: each field moved to pointer + i * WORD_SIZE
translate_fields(fields, i, pointer, acc, st) ==
    IF i > Len(fields) THEN [stms |-> acc, st |-> st]
    ELSE LET f == translate_exp(fields[i][2], st)
         IN  With(into_exp(f.tree, f.st), LAMBDA e :
                 translate_fields(fields, i + 1, pointer,
                     Append(acc, SMove(e.exp, IMem(IBinop(ITemp(pointer), "Add",
                                                          IConst(WORD_SIZE * (i - 1)))))),
                     e.st))

\* Exp::Seq, lines 286-289: all but the last expression, as statements
translate_rest(exps, i, acc, st) ==
    IF i > Len(exps) - 1 THEN [stms |-> acc, st |-> st]
    ELSE LET r == translate_exp(exps[i], st)
         IN  With(into_stm(r.tree, r.st), LAMBDA s :
                 translate_rest(exps, i + 1, Append(acc, s.stm), s.st))

\* Exp::Let, lines 496-499: the declarations that emit a statement
translate_decs(decs, i, acc, st) ==
    IF i > Len(decs) THEN [stms |-> acc, st |-> st]
    ELSE With(translate_dec(decs[i], st), LAMBDA d :
             IF Len(d.tree) = 0 THEN translate_decs(decs, i + 1, acc, d.st)
             ELSE With(into_stm(d.tree[1], d.st), LAMBDA s :
                      translate_decs(decs, i + 1, Append(acc, s.stm), s.st)))

\* arg_exps_first with the static link left out for every callee
arg_exps_no_link(call) == <<>>

\* Exp::Call, lines 170-173: the actuals a call starts with, by the callee's kind
arg_exps_first(call) ==
    IF call[1] = "Extern" THEN <<>> ELSE <<RBP>>

\* while_test with the exit label left out of the test
while_test_no_exit(guard_exp, e_label, t_label) ==
    SCJump(guard_exp, "Eq", IConst(0), t_label, t_label)

\* Exp::While, lines 406-413: the test of the loop header, leaving to e_label
\* when the guard is 0
while_test(guard_exp, e_label, t_label) ==
    SCJump(guard_exp, "Eq", IConst(0), e_label, t_label)

\* for_test with the two targets exchanged
for_test_swapped(index_location, hi_exp, e_label, t_label) ==
    SCJump(index_location, "Gt", hi_exp, t_label, e_label)

\* Exp::For, lines 464-470: the test of the loop header, leaving to e_label
\* when the index is above hi
for_test(index_location, hi_exp, e_label, t_label) ==
    SCJump(index_location, "Gt", hi_exp, e_label, t_label)

\* FnContext::get: <<>> when the symbol is unbound
fc_get(st, name) == CtxGet(st.fc, name)

translate_exp(ast, st) ==
    IF st.panic # "" THEN T(Ex(IConst(0)), st)
    ELSE CASE ast[1] = "Break" ->
            IF Len(st.loops) = 0 THEN Panic("break without enclosing loop", st)
            ELSE LET label == Last(st.loops)
                 IN  T(Nx(SJump(IName(label), <<label>>)),
                       Log(st, <<"break", label, Last(st.exits)>>))
      [] ast[1] = "Nil" -> T(Ex(IConst(0)), st)
      [] ast[1] = "Var" -> With(translate_var(ast[2], st), LAMBDA v : T(v.tree, v.st))
      [] ast[1] = "Int" -> T(Ex(IConst(ast[2])), st)
      [] ast[1] = "Str" ->
            LET label == LabelFromStr("STRING", st.next)
            IN  T(Ex(IName(label)),
                  [Fresh(st, 1) EXCEPT !.data = Append(@, <<label, ast[2]>>)])
      [] ast[1] = "Call" ->
            With(fc_get(st, ast[2]), LAMBDA call :
                IF Len(call) = 0 THEN Panic("unbound function", st)
                ELSE With(translate_args(ast[3], 1, arg_exps_first(call[1]), st), LAMBDA a :
                         T(Ex(ICall(IName(call[1][2]), a.exps)),
                           Log(a.st, <<"call", ast[2], call[1][1], ast[3], a.exps>>))))
      [] ast[1] = "Neg" ->
            LET r == translate_exp(ast[2], st)
            IN  With(into_exp(r.tree, r.st), LAMBDA e :
                    T(Ex(IBinop(IConst(0), "Sub", e.exp)), e.st))
      [] ast[1] = "Bin" ->
            LET l == translate_exp(ast[2], st)
            IN  With(into_exp(l.tree, l.st), LAMBDA lhs :
                LET r == translate_exp(ast[4], lhs.st)
                IN  With(into_exp(r.tree, r.st), LAMBDA rhs :
                    LET binop == translate_binop(ast[3])
                        relop == translate_relop(ast[3])
                    IN  IF Len(binop) > 0 THEN T(Ex(IBinop(lhs.exp, binop[1], rhs.exp)), rhs.st)
                        ELSE IF Len(relop) > 0 THEN T(Cx(lhs.exp, relop[1], rhs.exp), rhs.st)
                        ELSE Panic("non-exhaustive binop check", rhs.st)))
      [] ast[1] = "Rec" ->
            With(fc_get(st, "malloc"), LAMBDA malloc :
                IF Len(malloc) = 0 \/ malloc[1][1] # "Extern" THEN Panic("overridden malloc", st)
                ELSE LET size == IConst(WORD_SIZE * Len(ast[3]))
                         pointer == TempFromStr("MALLOC", st.next)
                         first == SMove(ICall(IName(malloc[1][2]), <<size>>), ITemp(pointer))
                     IN  With(translate_fields(ast[3], 1, pointer, <<first>>, Fresh(st, 1)),
                              LAMBDA f : T(Ex(IESeq(SSeq(f.stms), ITemp(pointer))), f.st)))
      [] ast[1] = "Seq" ->
            IF Len(ast[2]) = 0 THEN T(Ex(IConst(0)), st)
            ELSE LET l == translate_exp(Last(ast[2]), st)
                 IN  With(into_exp(l.tree, l.st), LAMBDA last :
                     With(translate_rest(ast[2], 1, <<>>, last.st), LAMBDA rest :
                         T(Ex(IESeq(SSeq(rest.stms), last.exp)), rest.st)))
      [] ast[1] = "Ass" ->
            With(translate_var(ast[2], st), LAMBDA lhs :
                LET rhs == translate_exp(ast[3], lhs.st)
                IN  With(into_exp(rhs.tree, rhs.st), LAMBDA r :
                    With(into_exp(lhs.tree, r.st), LAMBDA l :
                        T(Nx(SMove(r.exp, l.exp)), l.st))))
      [] ast[1] = "If" ->
            IF Len(ast[4]) > 0
              THEN LET t_label == LabelFromStr("TRUE_BRANCH", st.next)
                       f_label == LabelFromStr("FALSE_BRANCH", st.next + 1)
                       e_label == LabelFromStr("EXIT_IF_ELSE", st.next + 2)
                       result  == ITemp(TempFromStr("IF_ELSE_RESULT", st.next + 3))
                       g == translate_exp(ast[2], Fresh(st, 4))
                   IN  With(into_exp(g.tree, g.st), LAMBDA guard :
                       LET t == translate_exp(ast[3], guard.st)
                       IN  With(into_exp(t.tree, t.st), LAMBDA then :
                       LET o == translate_exp(ast[4][1], then.st)
                       IN  With(into_exp(o.tree, o.st), LAMBDA or :
                       T(Ex(IESeq(SSeq(<<
                            SCJump(guard.exp, "Eq", IConst(0), f_label, t_label),
                            SLabel(t_label),
                            SMove(then.exp, result),
                            SJump(IName(e_label), <<e_label>>),
                            SLabel(f_label),
                            SMove(or.exp, result),
                            SJump(IName(e_label), <<e_label>>),
                            SLabel(e_label)>>), result)), or.st))))
              ELSE LET t_label == LabelFromStr("TRUE_BRANCH", st.next)
                       e_label == LabelFromStr("EXIT_IF", st.next + 1)
                       g == translate_exp(ast[2], Fresh(st, 2))
                   IN  With(into_exp(g.tree, g.st), LAMBDA guard :
                       LET t == translate_exp(ast[3], guard.st)
                       IN  With(into_stm(t.tree, t.st), LAMBDA then :
                       T(Nx(SSeq(<<
                            SCJump(guard.exp, "Eq", IConst(0), e_label, t_label),
                            SLabel(t_label),
                            then.stm,
                            SJump(IName(e_label), <<e_label>>),
                            SLabel(e_label)>>)), then.st)))
      [] ast[1] = "While" ->
            LET s_label == LabelFromStr("START_WHILE", st.next)
                t_label == LabelFromStr("TRUE_BRANCH", st.next + 1)
                e_label == LabelFromStr("EXIT_WHILE", st.next + 2)
                g == translate_exp(ast[2], Fresh(st, 3))
            IN  With(into_exp(g.tree, g.st), LAMBDA guard :
                LET b == translate_exp(ast[3], [guard.st EXCEPT !.loops = Append(@, e_label),
                                                                !.exits = Append(@, e_label)])
                    popped == [b.st EXCEPT !.loops = SubSeq(@, 1, Len(@) - 1),
                                           !.exits = SubSeq(@, 1, Len(@) - 1)]
                IN  With(into_stm(b.tree, popped), LAMBDA body :
                T(Nx(SSeq(<<
                     SJump(IName(s_label), <<s_label>>),
                     SLabel(s_label),
                     while_test(guard.exp, e_label, t_label),
                     SLabel(t_label),
                     body.stm,
                     SJump(IName(s_label), <<s_label>>),
                     SLabel(e_label)>>)), body.st)))
      [] ast[1] = "For" ->
            With(FrameAllocate(Last(st.frames), ast[2], ast[3], st.next), LAMBDA a :
            LET index_location == a.exp
                s_label == LabelFromStr("START_FOR", a.next)
                t_label == LabelFromStr("TRUE_BRANCH", a.next + 1)
                e_label == LabelFromStr("EXIT_FOR", a.next + 2)
                lo_exp == translate_exp(ast[4],
                              [st EXCEPT !.frames = [@ EXCEPT ![Len(@)] = a.frame],
                                         !.next = a.next + 3])
                hi_exp == translate_exp(ast[5], lo_exp.st)
                b == translate_exp(ast[6], [hi_exp.st EXCEPT !.loops = Append(@, s_label),
                                                             !.exits = Append(@, e_label)])
                popped == [b.st EXCEPT !.loops = SubSeq(@, 1, Len(@) - 1),
                                       !.exits = SubSeq(@, 1, Len(@) - 1)]
            IN  With(into_exp(lo_exp.tree, popped), LAMBDA lo :
                With(into_exp(hi_exp.tree, lo.st), LAMBDA hi :
                With(into_stm(b.tree, hi.st), LAMBDA body :
                T(Nx(SSeq(<<
                     SMove(lo.exp, index_location),
                     SJump(IName(s_label), <<s_label>>),
                     SLabel(s_label),
                     for_test(index_location, hi.exp, e_label, t_label),
                     SLabel(t_label),
                     body.stm,
                     SMove(IBinop(index_location, "Add", IConst(1)), index_location),
                     SJump(IName(s_label), <<s_label>>),
                     SLabel(e_label)>>)), body.st)))))
      [] ast[1] = "Let" ->
            With(translate_decs(ast[2], 1, <<>>,
                                [st EXCEPT !.tc = CtxPush(@), !.fc = CtxPush(@)]), LAMBDA d :
                LET b == translate_exp(ast[3], d.st)
                IN  With(into_stm(b.tree, b.st), LAMBDA body :
                        T(Nx(SSeq(Append(d.stms, body.stm))),
                          [body.st EXCEPT !.fc = CtxPop(@), !.tc = CtxPop(@)])))
      [] ast[1] = "Arr" ->
            LET s == translate_exp(ast[3], st)
                i == translate_exp(ast[4], s.st)
            IN  IF i.st.panic # "" THEN i
                ELSE With(fc_get(i.st, "init_array"), LAMBDA extern :
                    IF Len(extern) = 0 \/ extern[1][1] # "Extern"
                      THEN Panic("overridden init_array", i.st)
                    ELSE With(into_exp(s.tree, i.st), LAMBDA size :
                         With(into_exp(i.tree, size.st), LAMBDA init :
                             T(Ex(ICall(IName(extern[1][2]), <<size.exp, init.exp>>)),
                               init.st))))

\* FnContext::insert: a fresh label for `name`, bound as Call::Function
fc_insert(st, name) ==
    LET label == LabelFromStr(name, st.next)
    IN  [label |-> label,
         st    |-> [Fresh(st, 1) EXCEPT !.fc = CtxInsert(@, name, CallFunction(label))]]

\* frames_pop with the frame left on the stack
frames_pop_kept(frames) == frames

\* Dec::Fun, lines 580-581: self.frames.pop()
frames_pop(frames) == SubSeq(frames, 1, Len(frames) - 1)

\* Dec::Fun, lines 560-587: one function after the other
translate_funs(funs, i, st) ==
    IF i > Len(funs) \/ st.panic # "" THEN st
    ELSE LET fun == funs[i]
             args == <<<<"STATIC_LINK", TRUE>>>> \o
                     [k \in 1..Len(fun.args) |-> <<fun.args[k][1], fun.args[k][2]>>]
         IN  With(fc_insert(st, fun.name), LAMBDA ins :
             With(FrameNew(ins.label, args, ins.st.next), LAMBDA new :
             LET body == translate_exp(fun.body,
                             [ins.st EXCEPT !.frames = Append(@, new.frame), !.next = new.next])
             IN  translate_funs(funs, i + 1,
                     Log([body.st EXCEPT !.frames = frames_pop(@),
                                         !.done = Append(@, [frame |-> Last(body.st.frames),
                                                             body  |-> body.tree])],
                         <<"fun", ins.label, Last(st.frames).label, Len(st.frames), i, funs>>))))

RECURSIVE translate_type_names(_, _, _), translate_type_bodies(_, _, _)
translate_type_names(decs, i, st) ==
    IF i > Len(decs) THEN st
    ELSE translate_type_names(decs, i + 1,
            [st EXCEPT !.tc = CtxInsert(@, decs[i][1], TyName(decs[i][1], <<>>))])

translate_type_bodies(decs, i, st) ==
    IF i > Len(decs) \/ st.panic # "" THEN st
    ELSE With(translate_type(decs[i][2], st), LAMBDA t :
             translate_type_bodies(decs, i + 1,
                [t.st EXCEPT !.tc = CtxInsert(@, decs[i][1], TyName(decs[i][1], <<t.ty>>))]))

\* translate_dec: [tree, st], tree is <<>> (None) or <<Tree>> (Some)
translate_dec(dec, st) ==
    IF st.panic # "" THEN [tree |-> <<>>, st |-> st]
    ELSE CASE dec[1] = "Fun" -> [tree |-> <<>>, st |-> translate_funs(dec[2], 1, st)]
      [] dec[1] = "VarDec" ->
            LET i == translate_exp(dec[5], st)
            IN  With(FrameAllocate(Last(i.st.frames), dec[2], dec[3], i.st.next), LAMBDA a :
                With(into_exp(i.tree, [i.st EXCEPT !.frames = [@ EXCEPT ![Len(@)] = a.frame],
                                                   !.next = a.next]), LAMBDA init :
                    [tree |-> <<Nx(SMove(init.exp, a.exp))>>, st |-> init.st]))
      [] dec[1] = "Type" ->
            [tree |-> <<>>,
             st |-> translate_type_bodies(dec[2], 1, translate_type_names(dec[2], 1, st))]

\* Translator::translate: the Translator after main is wrapped and pushed to done
translate(ast) ==
    With(translate_exp(ast, TranslatorNew), LAMBDA main_exp :
        IF main_exp.st.panic # "" THEN main_exp.st
        ELSE IF Len(main_exp.st.frames) = 0 THEN Panic("missing main frame", main_exp.st).st
        ELSE [main_exp.st EXCEPT !.frames = SubSeq(@, 1, Len(@) - 1),
                                 !.done = Append(@, [frame |-> Last(main_exp.st.frames),
                                                     body  |-> main_exp.tree])])

(***************************************************************************)
(* The programs the driver is run on.                                      *)
(***************************************************************************)
MaxDepth  == 2    \* nesting depth of the loop programs
MaxFields == 2    \* number of fields of a record literal
MaxNest   == 2    \* nesting depth of function declarations
MaxArgs   == 2    \* number of arguments of a call

\* loops, breaks, sequences and conditionals, nested MaxDepth deep
LoopAtoms == {Break, UnitE, IntE(1)}
RECURSIVE LoopExps(_)
LoopExps(n) ==
    IF n = 0 THEN LoopAtoms
    ELSE LET S == LoopExps(n - 1)
         IN  S \cup {While(IntE(1), b) : b \in S}
               \cup {For("i", FALSE, IntE(1), IntE(2), b) : b \in S}
               \cup {If(IntE(1), b) : b \in S}
               \cup {SeqE(<<a, b>>) : a \in S, b \in LoopAtoms}
LoopProgs == LoopExps(MaxDepth)

\* let type r = {a: int, b: string} in r{...} end, every literal of up to
\* MaxFields fields named a, b or c with an Int or a Str value
RecDecl == <<<<"a", "int">>, <<"b", "string">>>>
RECURSIVE SeqsUpTo(_, _)
SeqsUpTo(S, n) ==
    IF n = 0 THEN {<<>>}
    ELSE LET R == SeqsUpTo(S, n - 1)
         IN  R \cup {Append(s, x) : s \in {r \in R : Len(r) = n - 1}, x \in S}
RecLits == SeqsUpTo({<<f, v>> : f \in {"a", "b", "c"}, v \in {IntE(1), StrE("s")}}, MaxFields)
RecProg(fields) == Let(<<DecType(<<<<"r", TypeRec(RecDecl)>>>>)>>, Rec("r", fields))
RecProgs == {RecProg(fields) : fields \in RecLits}

\* let type <group> in 0 end, every group over the names a and b
TypeBodies == {TypeName("a"), TypeName("b"), TypeName("int"),
               TypeArr("a"), TypeArr("b"), TypeRec(<<<<"f", "a">>>>), TypeRec(<<<<"f", "b">>>>)}
TypeGroups == {<<<<"a", x>>>> : x \in TypeBodies}
                \cup {<<<<"a", x>>, <<"b", y>>>> : x \in TypeBodies, y \in TypeBodies}
                \cup {<<<<"a", x>>, <<"a", y>>>> : x \in {TypeName("int")}, y \in TypeBodies}
TypeProg(group) == Let(<<DecType(group)>>, IntE(0))
TypeProgs == {TypeProg(g) : g \in TypeGroups}

\* functions nested n deep whose innermost body reads x, a variable of the
\* function k levels down from main (0 = main); with or without a type that is
\* also named x
FunNames == <<"f1", "f2", "f3", "f4">>
RECURSIVE NestBody(_, _, _)
NestBody(level, n, k) ==
    LET x == IF k = level THEN <<DecVar("x", TRUE, <<>>, IntE(1))>> ELSE <<>>
    IN  IF level = n
          THEN IF k = level THEN Let(x, VarE(Simple("x"))) ELSE VarE(Simple("x"))
          ELSE Let(x \o <<DecFun(<<FunDec(FunNames[level + 1], <<>>, <<"int">>,
                                          NestBody(level + 1, n, k))>>)>>,
                   Call(FunNames[level + 1], <<>>))
NestProg(n, k, ty) ==
    IF ty THEN Let(<<DecType(<<<<"x", TypeName("int")>>>>)>>, NestBody(0, n, k))
          ELSE NestBody(0, n, k)
NestProgs == {NestProg(n, k, ty) : n \in 0..MaxNest, k \in 0..MaxNest, ty \in BOOLEAN}

\* records, arrays, their fields and elements, and user functions named after
\* the runtime's allocators
DecR == DecType(<<<<"r", TypeRec(<<<<"a", "int">>>>)>>, <<"t", TypeArr("int")>>>>)
NewR == Rec("r", <<<<"a", IntE(1)>>>>)
NewT == Arr("t", IntE(2), IntE(0))
UserFun(name) == DecFun(<<FunDec(name, <<>>, <<>>, UnitE)>>)
AccessProgs ==
    {Let(<<DecR, d>>, e) : d \in {UserFun("malloc"), UserFun("init_array"), UserFun("g")},
                           e \in {NewR, NewT}}
      \cup UNION {{Let(<<DecR, DecVar(v, FALSE, <<"r">>, NewR)>>, e) :
                      e \in {VarE(Field(Simple(v), "a")), Ass(Field(Simple(v), "a"), IntE(2)),
                             Ass(Simple(v), Nil), IntE(0)}} : v \in {"v", "r"}}
      \cup UNION {{Let(<<DecR, DecVar(v, FALSE, <<"t">>, NewT)>>, e) :
                      e \in {VarE(Index(Simple(v), IntE(1))),
                             Ass(Index(Simple(v), IntE(1)), IntE(2))}} : v \in {"v", "t"}}

\* for loops whose upper bound is a call, a constant or a string's ordinal
ForProgs ==
    {For("i", esc, IntE(1), hi, b) :
        esc \in BOOLEAN,
        hi \in {Call("not", <<IntE(0)>>), Call("ord", <<StrE("a")>>), IntE(2)},
        b \in {UnitE, Break, Call("flush", <<>>)}}

\* calls of the runtime's functions and of a user function f, g or print of up
\* to MaxArgs int parameters, with constants, strings and calls as arguments
IntArgs == {IntE(1), IntE(2), Call("not", <<IntE(3)>>)}
Formals(n) == [i \in 1..n |-> <<FunNames[i], FALSE, "int">>]
CallProgs ==
    {Let(<<DecFun(<<FunDec(f, Formals(n), <<"int">>, IntE(0))>>)>>, Call(f, args)) :
        f \in {"f", "print"}, n \in 0..MaxArgs, args \in SeqsUpTo(IntArgs, MaxArgs)}
      \cup {Call("not", <<a>>) : a \in IntArgs}
      \cup {Call("flush", <<>>), Call("print", <<StrE("s")>>),
            Call("concat", <<StrE("s"), StrE("t")>>),
            Call("substring", <<StrE("s"), IntE(1), IntE(2)>>)}

\* binary operators over operands of every kind of type: two record types
\* declared apart with the same fields, an array type, and a variable of each
Binops == {"Add", "Sub", "Mul", "Div", "Eq", "Neq", "Lt", "Le", "Gt", "Ge", "LAnd", "LOr"}
BinDecs ==
    <<DecType(<<<<"r", TypeRec(<<<<"a", "int">>>>)>>,
                <<"s", TypeRec(<<<<"a", "int">>>>)>>,
                <<"t", TypeArr("int")>>>>),
      DecVar("x", FALSE, <<"r">>, NewR),
      DecVar("y", FALSE, <<"s">>, Rec("s", <<<<"a", IntE(1)>>>>)),
      DecVar("z", FALSE, <<"t">>, NewT)>>
BinOperands ==
    {Nil, IntE(1), StrE("s"), UnitE, NewR,
     VarE(Simple("x")), VarE(Simple("y")), VarE(Simple("z"))}
BinProgs == {Let(BinDecs, Bin(l, op, r)) : l, r \in BinOperands, op \in Binops}

\* one assignment each, reached by check: to a loop index (directly, in a
\* nested loop, in a nested function, with an ill-typed right side), to an
\* index shadowed by a variable, a formal or an inner loop, to an outer
\* variable from a loop, to a record field and to an array element in a loop
AssI(e) == Ass(Simple("i"), e)
AssBodies ==
    {AssI(IntE(1)), AssI(StrE("s")),
     SeqE(<<UnitE, AssI(IntE(1))>>),
     IfElse(IntE(1), AssI(IntE(1)), UnitE),
     While(IntE(1), AssI(IntE(1))),
     For("j", FALSE, IntE(1), IntE(2), AssI(IntE(1))),
     For("i", FALSE, IntE(1), IntE(2), AssI(IntE(1))),
     Let(<<DecVar("i", FALSE, <<>>, IntE(0))>>, AssI(IntE(1))),
     Let(<<DecVar("j", FALSE, <<>>, IntE(0))>>, AssI(IntE(1))),
     Let(<<DecVar("j", FALSE, <<>>, IntE(0))>>, Ass(Simple("j"), IntE(1))),
     Let(<<DecFun(<<FunDec("f", <<>>, <<>>, AssI(IntE(1)))>>)>>, UnitE),
     Let(<<DecFun(<<FunDec("f", <<<<"i", FALSE, "int">>>>, <<>>, AssI(IntE(1)))>>)>>, UnitE),
     Let(<<DecFun(<<FunDec("f", <<<<"j", FALSE, "int">>>>, <<>>, AssI(IntE(1)))>>)>>, UnitE)}
AssProgs ==
    {For("i", FALSE, IntE(1), IntE(2), b) : b \in AssBodies}
      \cup {Let(<<DecVar("i", FALSE, <<>>, IntE(0))>>, For("j", FALSE, IntE(1), IntE(2), b)) :
               b \in AssBodies}
      \cup {Let(<<DecR, DecVar("v", FALSE, <<"r">>, NewR), DecVar("w", FALSE, <<"t">>, NewT)>>,
                 For("i", FALSE, IntE(1), IntE(2), Ass(l, IntE(2)))) :
               l \in {Field(Simple("v"), "a"), Index(Simple("w"), IntE(1)),
                      Index(Simple("w"), VarE(Simple("i"))), Simple("v"), Simple("w")}}

\* a variable n declared with a nil initializer (nil itself, or nil as the
\* last of a sequence): without annotation, annotated with a record type, its
\* alias, an array type and int; alone, or after an earlier n of type Int
NilInits == {Nil, SeqE(<<IntE(1), Nil>>)}
NilTypes ==
    DecType(<<<<"r", TypeRec(<<<<"a", "int">>>>)>>, <<"q", TypeName("r")>>, <<"t", TypeArr("int")>>>>)
NilAnnotations == {<<>>, <<"r">>, <<"q">>, <<"t">>, <<"int">>}
NilProgs ==
    {Let(<<NilTypes>> \o pre \o <<DecVar("n", FALSE, ann, init)>>, body) :
        pre \in {<<>>, <<DecVar("n", FALSE, <<>>, IntE(1))>>},
        ann \in NilAnnotations, init \in NilInits,
        body \in {IntE(0), VarE(Simple("n"))}}

\* under the declarations ScopeOuter: a let or a for (ScopeInner), then a
\* probe of what is visible after it
ScopeOuter ==
    <<DecVar("x", FALSE, <<>>, IntE(1)), DecVar("i", FALSE, <<>>, StrE("s"))>>
ForUnit(n, b) == For(n, FALSE, IntE(1), IntE(2), b)
ScopeInner ==
    {Let(<<DecVar("x", FALSE, <<>>, StrE("s"))>>, UnitE),
     Let(<<DecVar("y", FALSE, <<>>, IntE(1))>>, UnitE),
     Let(<<DecType(<<<<"r", TypeRec(<<<<"a", "int">>>>)>>>>),
           DecVar("y", FALSE, <<"r">>, Nil)>>, UnitE),
     Let(<<DecType(<<<<"int", TypeName("string")>>>>)>>, UnitE),
     Let(<<DecFun(<<FunDec("g", <<<<"x", FALSE, "string">>>>, <<>>, UnitE)>>)>>, UnitE),
     Let(<<DecVar("x", FALSE, <<>>, StrE("s"))>>,
         Let(<<DecVar("x", FALSE, <<>>, Nil)>>, UnitE)),
     ForUnit("i", UnitE), ForUnit("k", UnitE),
     ForUnit("i", Let(<<DecVar("x", FALSE, <<>>, StrE("s"))>>, UnitE)),
     ForUnit("x", ForUnit("i", UnitE))}
ScopeProbes ==
    {VarE(Simple("x")), VarE(Simple("y")), VarE(Simple("i")), VarE(Simple("k")),
     Bin(VarE(Simple("x")), "Add", IntE(1)),
     Ass(Simple("i"), StrE("t")), Ass(Simple("x"), IntE(2)),
     Call("g", <<StrE("s")>>),
     Let(<<DecVar("z", FALSE, <<"r">>, Nil)>>, UnitE),
     Let(<<DecVar("z", FALSE, <<"int">>, IntE(1))>>, VarE(Simple("z")))}
ScopeProgs ==
    {Let(ScopeOuter, SeqE(<<inner, probe>>)) : inner \in ScopeInner, probe \in ScopeProbes}

\* functions f and g without parameters that call themselves, each other and
\* the function around them: g declared after f in the same let, or inside f
CallF == Call("f", <<>>)
CallG == Call("g", <<>>)
ProcDec(name, body) == DecFun(<<FunDec(name, <<>>, <<>>, body)>>)
LinkProgs ==
    {Let(<<ProcDec("f", fb), ProcDec("g", gb)>>, mb) :
        fb \in {UnitE, CallF},
        gb \in {UnitE, CallF, CallG, SeqE(<<CallF, CallG>>)},
        mb \in {CallF, CallG, SeqE(<<CallF, CallG>>)}}
      \cup {Let(<<ProcDec("f", Let(<<ProcDec("g", gb)>>, fb))>>, CallF) :
               gb \in {UnitE, CallF, CallG},
               fb \in {CallG, SeqE(<<CallG, CallF>>)}}

\* a let of type Int: let var x := 1 + 2 in body end, with a constant or x
\* itself as the body (a type named x lets the translator find x), alone and
\* as the left operand of +
LetValueDecs ==
    <<DecType(<<<<"x", TypeName("int")>>>>),
      DecVar("x", FALSE, <<>>, Bin(IntE(1), "Add", IntE(2)))>>
LetValues == {Let(LetValueDecs, b) : b \in {IntE(5), VarE(Simple("x"))}}
LetValueProgs == LetValues \cup {Bin(l, "Add", IntE(1)) : l \in LetValues}

\* conditionals with both branches, alone and in a loop body
IfElseProgs ==
    {IfElse(IntE(1), a, b) : a, b \in {IntE(1), IntE(2)}}
      \cup {While(IntE(1), IfElse(IntE(1), a, b)) : a, b \in {Break, UnitE}}
      \cup {For("i", FALSE, IntE(1), IntE(2), IfElse(IntE(1), a, b)) : a, b \in {Break, UnitE}}

\* the four tests of control flow in one program
LayoutProgs ==
    {SeqE(<<If(IntE(1), UnitE), While(IntE(0), b), For("i", FALSE, IntE(1), IntE(2), UnitE),
            IfElse(IntE(1), IntE(2), IntE(3))>>) : b \in {UnitE, Break}}

\* let type r = {a: int, b: int} var r : r := r{n1 = 1, n2 = 2} in r.f end
RoundDecl == <<<<"a", "int">>, <<"b", "int">>>>
RoundLits == {<<<<n1, IntE(1)>>, <<n2, IntE(2)>>>> : n1 \in {"a", "b"}, n2 \in {"a", "b"}}
RoundProgs ==
    {Let(<<DecType(<<<<"r", TypeRec(RoundDecl)>>>>), DecVar("r", FALSE, <<"r">>, Rec("r", fields))>>,
         VarE(Field(Simple("r"), f))) : fields \in RoundLits, f \in {"a", "b"}}

\* a group of two procedures f and g that call each other, with or without a
\* procedure g declared outside the group
GroupDec(fb, gb) == DecFun(<<FunDec("f", <<>>, <<>>, fb), FunDec("g", <<>>, <<>>, gb)>>)
GroupLets == {Let(<<GroupDec(fb, gb)>>, CallF) : fb \in {UnitE, CallF, CallG},
                                                  gb \in {UnitE, CallF, CallG}}
GroupProgs == GroupLets \cup {Let(<<ProcDec("g", UnitE)>>, l) : l \in GroupLets}

\* a procedure declared and called in the body of a loop
LoopFunBodies == {UnitE, Break, While(IntE(1), Break), SeqE(<<Break, UnitE>>)}
LoopFunProgs ==
    {While(IntE(1), Let(<<ProcDec("f", b)>>, CallF)) : b \in LoopFunBodies}
      \cup {For("i", FALSE, IntE(1), IntE(2), Let(<<ProcDec("f", b)>>, CallF)) : b \in LoopFunBodies}

Programs == LoopProgs \cup RecProgs \cup TypeProgs \cup NestProgs \cup AccessProgs
              \cup ForProgs \cup CallProgs \cup IfElseProgs \cup BinProgs
              \cup AssProgs \cup NilProgs \cup ScopeProgs \cup LetValueProgs
              \cup LayoutProgs \cup RoundProgs \cup GroupProgs \cup LoopFunProgs

(***************************************************************************)
(* The driver: check, then translate what check accepted.                  *)
(***************************************************************************)
NoResult == [err |-> "none"]
NoTranslation == [panic |-> "none"]
NoTiler  == [asm |-> <<>>, spilled_args |-> 0, panic |-> "", next |-> 0, at |-> 0]
NoRun    == [at |-> "none"]

Init ==
    /\ pc = "init"
    /\ prog \in Programs
    /\ chk = NoResult
    /\ trn = NoTranslation
    /\ unit = <<>>
    /\ tiler = NoTiler
    /\ run = NoRun

Check ==
    /\ pc = "init"
    /\ chk' = check(prog)
    /\ pc' = "checked"
    /\ UNCHANGED <<prog, trn, unit, tiler, run>>

Translate ==
    /\ pc = "checked"
    /\ chk.err = ""
    /\ trn' = translate(prog)
    /\ pc' = "translated"
    /\ UNCHANGED <<prog, chk, unit, tiler, run>>

Next == Check \/ Translate

Spec == Init /\ [][Next]_vars

(***************************************************************************)
(* Semantic analyzer: break outside a loop, record literals, type groups.  *)
(***************************************************************************)
\* a `break` of e that no While or For body of e encloses
RECURSIVE BareBreak(_)
BareBreak(e) ==
    CASE e[1] = "Break" -> TRUE
      [] e[1] = "While" -> BareBreak(e[2])
      [] e[1] = "For"   -> BareBreak(e[4]) \/ BareBreak(e[5])
      [] e[1] = "If"    -> \/ BareBreak(e[2])
                           \/ BareBreak(e[3])
                           \/ (Len(e[4]) > 0 /\ BareBreak(e[4][1]))
      [] e[1] = "Seq"   -> \E i \in 1..Len(e[2]) : BareBreak(e[2][i])
      [] OTHER          -> FALSE

\* C1: a program with a `break` that is in no enclosing loop body (a break after
\* a finished loop included) is rejected by Checker::check.
C1_BreakOutsideLoopRejected ==
    (pc = "checked" /\ BareBreak(prog)) => chk.err # ""

IsRecProg(p)  == p[1] = "Let" /\ p[3][1] = "Rec"
LitFields(p)  == p[3][3]
LitTy(v)      == IF v[1] = "Int" THEN "int" ELSE "string"
NamesMatch(fields) ==
    /\ Len(fields) = Len(RecDecl)
    /\ \A i \in 1..Len(fields) : fields[i][1] = RecDecl[i][1]
ValuesMatch(fields) ==
    \A i \in 1..Len(fields) : LitTy(fields[i][2]) = RecDecl[i][2]

\* C2: a record literal whose field count differs from the declaration, or whose
\* i-th field name differs from the i-th declared name, fails with FieldMismatch
\* whatever the types of its field values.
C2_FieldNamesMustMatch ==
    (pc = "checked" /\ IsRecProg(prog) /\ ~NamesMatch(LitFields(prog)))
        => chk.err = "FieldMismatch"

\* C3: a record literal whose count, names and order match the declaration but
\* with a field value whose type does not subtype the declared field type fails
\* with FieldMismatch.
C3_FieldTypesMustSubtype ==
    (pc = "checked" /\ IsRecProg(prog) /\ NamesMatch(LitFields(prog))
                    /\ ~ValuesMatch(LitFields(prog)))
        => chk.err = "FieldMismatch"

IsTypeProg(p) == p[1] = "Let" /\ Len(p[2]) = 1 /\ p[2][1][1] = "Type" /\ p[3] = IntE(0)
TypeGroup(p)  == p[2][1][2]
\* the group member that n is declared an alias of ("" when n is none)
AliasOf(group, n) ==
    LET idx == {i \in 1..Len(group) : group[i][1] = n /\ group[i][2][1] = "TName"}
    IN  IF idx = {} THEN "" ELSE group[Max(idx)][2][2]
RECURSIVE AliasSteps(_, _, _)
AliasSteps(group, n, k) ==
    IF k = 0 THEN n ELSE AliasOf(group, AliasSteps(group, n, k - 1))
\* a cycle among the members that passes through no Arr or Rec constructor
HasAliasCycle(group) ==
    \E i, k \in 1..Len(group) : AliasSteps(group, group[i][1], k) = group[i][1]

\* C4: a Type group with a cycle among its members that passes through no Arr or
\* Rec constructor is rejected by check_dec, even when no type of it is used.
C4_AliasCycleRejected ==
    (pc = "checked" /\ IsTypeProg(prog) /\ HasAliasCycle(TypeGroup(prog)))
        => chk.err # ""

(***************************************************************************)
(* IR translator: internal errors, static links, break, for, calls.        *)
(***************************************************************************)
Translated == pc = "translated" /\ trn.panic = ""
LogOf(kind) == {i \in 1..Len(trn.log) : trn.log[i][1] = kind}

\* C5: Translator::translate reaches no internal-error exit on a program that
\* Checker::check accepted.
C5_TranslateNeverPanics ==
    pc = "translated" => trn.panic = ""

\* the number of loads through static-link slots in an access expression: the
\* Mem nodes under the one of the variable's own slot
RECURSIVE MemDepth(_)
MemDepth(e) == IF e[1] = "Mem" THEN 1 + MemDepth(e[2][2]) ELSE 0
StaticLinkLoads(exp) == IF exp[1] = "Mem" THEN MemDepth(exp) - 1 ELSE 0

\* C7: the access expression translate_var builds for a simple variable declared
\* d frames up the lexical chain holds exactly d loads through static-link slots.
C7_StaticLinkLoadsEqualDistance ==
    Translated =>
        \A i \in LogOf("var") : StaticLinkLoads(trn.log[i][4]) = trn.log[i][3]

\* C8: a break jumps to the exit label of the innermost enclosing loop, never to
\* the loop's start label.
C8_BreakJumpsToLoopExit ==
    Translated =>
        \A i \in LogOf("break") : trn.log[i][2] = trn.log[i][3]

IsForProg(p) == p[1] = "For"
\* the statements emitted for a program that is one For
ForStms        == Last(trn.done).body[2][2]
HeaderAt(stms) == CHOOSE i \in 1..Len(stms) :
                      stms[i][1] = "Label" /\ stms[i][2][2] = "START_FOR"
HeaderTest(stms) == stms[HeaderAt(stms) + 1]

\* C9: the upper bound of a For is evaluated once: it is moved to a temp before
\* the loop header, and the test of every iteration compares the index against
\* that temp.
C9_ForBoundEvaluatedOnce ==
    (Translated /\ IsForProg(prog) /\ prog[5][1] = "Call") =>
        LET stms == ForStms
            test == HeaderTest(stms)
        IN  /\ test[1] = "CJump"
            /\ test[4][1] = "Temp"
            /\ \E j \in 1..(HeaderAt(stms) - 1) :
                   stms[j][1] = "Move" /\ stms[j][3] = test[4] /\ stms[j][2][1] = "Call"

\* the expressions directly under an expression or a variable, declarations
\* set aside
RECURSIVE VarExps(_)
VarExps(v) ==
    CASE v[1] = "Field" -> VarExps(v[2])
      [] v[1] = "Index" -> VarExps(v[2]) \o <<v[3]>>
      [] OTHER          -> <<>>
ExpsUnder(e) ==
    CASE e[1] = "Var"   -> VarExps(e[2])
      [] e[1] = "Call"  -> e[3]
      [] e[1] = "Neg"   -> <<e[2]>>
      [] e[1] = "Bin"   -> <<e[2], e[4]>>
      [] e[1] = "Rec"   -> [i \in 1..Len(e[3]) |-> e[3][i][2]]
      [] e[1] = "Seq"   -> e[2]
      [] e[1] = "Ass"   -> VarExps(e[2]) \o <<e[3]>>
      [] e[1] = "If"    -> <<e[2], e[3]>> \o e[4]
      [] e[1] = "While" -> <<e[2], e[3]>>
      [] e[1] = "For"   -> <<e[4], e[5], e[6]>>
      [] e[1] = "Arr"   -> <<e[3], e[4]>>
      [] e[1] = "Let"   -> <<e[3]>>
      [] OTHER          -> <<>>

\* the function declarations of an expression: <<where, name, d>>, d the
\* number of functions the declaration is inside of, main counted
RECURSIVE FunDecs(_, _, _)
FunDecs(e, d, at) ==
    UNION {FunDecs(ExpsUnder(e)[i], d, Append(at, i)) : i \in 1..Len(ExpsUnder(e))}
      \cup (IF e[1] # "Let" THEN {}
            ELSE UNION {
                   CASE e[2][i][1] = "Fun" ->
                          UNION {{<<at \o <<-i, j>>, e[2][i][2][j].name, d>>}
                                   \cup FunDecs(e[2][i][2][j].body, d + 1, at \o <<-i, j>>) :
                                 j \in 1..Len(e[2][i][2])}
                     [] e[2][i][1] = "VarDec" -> FunDecs(e[2][i][5], d, Append(at, -i))
                     [] OTHER -> {} : i \in 1..Len(e[2])})
\* the names of the functions a program declares
FunsOf(e) == {f[2] : f \in FunDecs(e, 1, <<>>)}

\* what the actual of a source argument looks like
ActualOf(arg, act) ==
    CASE arg[1] = "Int"  -> act = IConst(arg[2])
      [] arg[1] = "Str"  -> act[1] = "Name"
      [] arg[1] = "Call" -> act[1] = "Call" /\ act[2][1] = "Name"
      [] OTHER           -> TRUE

\* C10: a call of a user-declared function has |args| + 1 actuals, Temp(RBP) first;
\* a call of an extern function has |args| actuals; the rest are the translated
\* arguments in source order.
C10_StaticLinkOnlyForUserFunctions ==
    Translated =>
        \A i \in LogOf("call") :
            LET name == trn.log[i][2]
                args == trn.log[i][4]
                acts == trn.log[i][5]
                link == IF name \in FunsOf(prog) THEN 1 ELSE 0
            IN  /\ Len(acts) = Len(args) + link
                /\ link = 1 => acts[1] = RBP
                /\ \A j \in 1..Len(args) : ActualOf(args[j], acts[j + link])

\* a user function of two parameters and an extern have both been called
C10_Witness ==
    /\ Translated
    /\ \E i \in LogOf("call") :
           trn.log[i][2] \in FunsOf(prog) /\ Len(trn.log[i][4]) >= 2 /\ Len(trn.log[i][5]) >= 3
    /\ \E i \in LogOf("call") :
           trn.log[i][2] \notin FunsOf(prog) /\ Len(trn.log[i][4]) >= 1

\* built from If, While, For and Break, over constants, () and sequences
RECURSIVE IsControl(_)
IsControl(e) ==
    CASE e[1] \in {"Break", "Int"} -> TRUE
      [] e[1] = "Seq"   -> \A i \in 1..Len(e[2]) : IsControl(e[2][i])
      [] e[1] = "If"    -> /\ IsControl(e[2])
                           /\ IsControl(e[3])
                           /\ \A i \in 1..Len(e[4]) : IsControl(e[4][i])
      [] e[1] = "While" -> IsControl(e[2]) /\ IsControl(e[3])
      [] e[1] = "For"   -> IsControl(e[4]) /\ IsControl(e[5]) /\ IsControl(e[6])
      [] OTHER          -> FALSE

\* the labels a tree, statement or expression places (<<"def", l>>) and the
\* labels its Jump and CJump statements go to (<<"use", l>>)
RECURSIVE LabelMarks(_)
LabelMarks(x) ==
    CASE x[1] = "Label" -> {<<"def", x[2]>>}
      [] x[1] = "Jump"  -> {<<"use", x[3][i]>> : i \in 1..Len(x[3])}
                             \cup (IF x[2][1] = "Name" THEN {<<"use", x[2][2]>>} ELSE {})
                             \cup LabelMarks(x[2])
      [] x[1] = "CJump" -> {<<"use", x[5]>>, <<"use", x[6]>>}
                             \cup LabelMarks(x[2]) \cup LabelMarks(x[4])
      [] x[1] = "Seq"   -> UNION {LabelMarks(x[2][i]) : i \in 1..Len(x[2])}
      [] x[1] = "Move"  -> LabelMarks(x[2]) \cup LabelMarks(x[3])
      [] x[1] \in {"Exp", "Mem", "Ex", "Nx"} -> LabelMarks(x[2])
      [] x[1] = "ESeq"  -> LabelMarks(x[2]) \cup LabelMarks(x[3])
      [] x[1] = "Binop" -> LabelMarks(x[2]) \cup LabelMarks(x[4])
      [] x[1] = "Cx"    -> LabelMarks(x[2]) \cup LabelMarks(x[4])
      [] x[1] = "Call"  -> LabelMarks(x[2])
                             \cup UNION {LabelMarks(x[3][i]) : i \in 1..Len(x[3])}
      [] OTHER          -> {}
StreamMarks == UNION {LabelMarks(trn.done[k].body) : k \in 1..Len(trn.done)}

\* C11: in what the translator emits for a program built from If, While, For
\* and Break, every label placed by a Label statement is the target of a Jump
\* or a CJump.
C11_EveryLabelIsTargeted ==
    (Translated /\ IsControl(prog)) =>
        \A m \in StreamMarks : m[1] = "def" => <<"use", m[2]>> \in StreamMarks

\* a while loop whose body is a conditional with a break has been translated
C11_Witness ==
    /\ Translated
    /\ IsControl(prog)
    /\ LogOf("break") # {}
    /\ \E m \in StreamMarks : m[1] = "def" /\ m[2][2] = "EXIT_WHILE"
    /\ \E m \in StreamMarks : m[1] = "def" /\ m[2][2] = "EXIT_IF_ELSE"
    /\ Cardinality({m \in StreamMarks : m[1] = "def"}) >= 6

\* the program is a binary operator under the declarations BinDecs, and has
\* been checked
IsBinProg == pc # "init" /\ prog \in BinProgs
BinOp  == prog[3][3]
\* the types check gives the two operands under the same declarations
BinLt  == check(Let(BinDecs, prog[3][2])).ty
BinRt  == check(Let(BinDecs, prog[3][4])).ty
BinAccepted == chk.err = "" /\ chk.ty = TyInt
BinRejected == chk.err = "BinaryMismatch"

C13_ComparisonAndArithmeticTyping ==
    (IsBinProg /\ BinOp \notin {"Eq", "Neq"}
       /\ {BinLt[1], BinRt[1]} \subseteq {"Nil", "Int", "Str", "Unit", "Arr", "Rec"}) =>
        IF BinOp \in {"Lt", "Le", "Gt", "Ge"}
        THEN IF BinLt = BinRt /\ BinLt[1] \in {"Int", "Str"} THEN BinAccepted ELSE BinRejected
        ELSE IF BinLt[1] = "Int" /\ BinRt[1] = "Int" THEN BinAccepted ELSE BinRejected

\* two strings under an ordered comparison, accepted
C13_Witness ==
    /\ IsBinProg
    /\ prog[3] = Bin(StrE("s"), "Le", StrE("s"))
    /\ BinLt[1] = "Str"
    /\ BinAccepted

\* what binds a name at a place of the program: env is the sequence of
\* <<name, binder>> on the way down, the innermost last
BinderOf(env, name) ==
    With({i \in 1..Len(env) : env[i][1] = name}, LAMBDA idx :
        IF idx = {} THEN "none" ELSE env[Max(idx)][2])

\* the binders of the assigned simple variables of e ("other" for a field or
\* an element), read off the program text
RECURSIVE AssKinds(_, _), AssKindsDecs(_, _, _, _)
AssKinds(e, env) ==
    CASE e[1] = "Ass"   -> (IF e[2][1] = "Simple" THEN {BinderOf(env, e[2][2])} ELSE {"other"})
                              \cup AssKinds(e[3], env)
      [] e[1] = "Seq"   -> UNION {AssKinds(e[2][i], env) : i \in 1..Len(e[2])}
      [] e[1] = "If"    -> AssKinds(e[2], env) \cup AssKinds(e[3], env)
                              \cup UNION {AssKinds(e[4][i], env) : i \in 1..Len(e[4])}
      [] e[1] = "While" -> AssKinds(e[2], env) \cup AssKinds(e[3], env)
      [] e[1] = "For"   -> AssKinds(e[4], env) \cup AssKinds(e[5], env)
                              \cup AssKinds(e[6], Append(env, <<e[2], "for">>))
      [] e[1] = "Let"   -> AssKindsDecs(e[2], 1, e[3], env)
      [] OTHER          -> {}
AssKindsDecs(decs, i, body, env) ==
    IF i > Len(decs) THEN AssKinds(body, env)
    ELSE CASE decs[i][1] = "VarDec" ->
                 AssKinds(decs[i][5], env)
                   \cup AssKindsDecs(decs, i + 1, body, Append(env, <<decs[i][2], "var">>))
           [] decs[i][1] = "Fun" ->
                 With(env \o [k \in 1..Len(decs[i][2]) |-> <<decs[i][2][k].name, "fun">>],
                      LAMBDA envf :
                     UNION {AssKinds(decs[i][2][k].body,
                                     envf \o [a \in 1..Len(decs[i][2][k].args) |->
                                                <<decs[i][2][k].args[a][1], "formal">>]) :
                              k \in 1..Len(decs[i][2])}
                       \cup AssKindsDecs(decs, i + 1, body, envf))
           [] OTHER -> AssKindsDecs(decs, i + 1, body, env)

\* C14: an assignment to the simple variable bound by an enclosing for, not
\* shadowed, is rejected with AssignImmutable; no assignment to any other
\* l-value (declared variable, formal, record field, array element) is.
C14_OnlyForIndexImmutable ==
    pc # "init" =>
        /\ chk.err = "AssignImmutable" => "for" \in AssKinds(prog, <<>>)
        /\ (prog \in AssProgs /\ AssKinds(prog, <<>>) = {"for"}) => chk.err = "AssignImmutable"

\* an assignment to the index of the enclosing for, made in a nested function,
\* has been rejected; the checker saw it after the declarations
C14_Witness ==
    /\ pc = "checked"
    /\ prog = For("i", FALSE, IntE(1), IntE(2),
                  Let(<<DecFun(<<FunDec("f", <<>>, <<>>, AssI(IntE(1)))>>)>>, UnitE))
    /\ AssKinds(prog, <<>>) = {"for"}
    /\ chk.err = "AssignImmutable"

\* the program declares n with a nil initializer as its last declaration,
\* and has been checked
IsNilProg == pc # "init" /\ prog \in NilProgs
NilDec    == prog[2][Len(prog[2])]
\* what n is bound to in the checker's variable context
NilBound  == CtxGet(chk.st.vc, "n")

\* C15: a variable declared without annotation whose initializer has type Nil
\* is rejected with UnknownNil and is not added to the variable context; with
\* an annotation naming a record type the same initializer is accepted.
C15_UnannotatedNilRejected ==
    IsNilProg =>
        /\ NilDec[4] = <<>> =>
              /\ chk.err = "UnknownNil"
              /\ NilBound = (IF Len(prog[2]) = 3 THEN <<BindVar(TyInt, TRUE)>> ELSE <<>>)
        /\ (Len(NilDec[4]) = 1 /\ NilDec[4][1] \in {"r", "q"}) =>
              /\ chk.err = ""
              /\ prog[3] = VarE(Simple("n")) => chk.ty[1] = "Rec"

\* var n := nil after an n of type Int: rejected, n still the Int variable
C15_Witness ==
    /\ IsNilProg
    /\ prog[2] = <<NilTypes, DecVar("n", FALSE, <<>>, IntE(1)), DecVar("n", FALSE, <<>>, Nil)>>
    /\ chk.err = "UnknownNil"
    /\ NilBound = <<BindVar(TyInt, TRUE)>>

\* the program is a let or for followed by a probe, and has been checked
IsScopeProg == pc # "init" /\ prog \in ScopeProgs
\* the checker where the inner let or for starts: in the outer let's scope,
\* after its declarations
ScopeBefore ==
    check_decs(ScopeOuter, 1,
               [CheckerNew EXCEPT !.vc = CtxPush(@), !.tc = CtxPush(@)]).st
\* check_exp on the inner let or for
ScopeInnerResult == check_exp(prog[3][2][1], ScopeBefore)
\* the same program with () in the place of the inner let or for
ScopeWithout == check(Let(ScopeOuter, SeqE(<<UnitE, prog[3][2][2]>>)))

\* C16: when check_exp returns successfully from a let or a for, the variable
\* and type contexts have the depth they had before, hold the bindings they
\* held before (nothing declared inside, nor the for index, is left; a
\* shadowed binding is back with its type and mutability), and what follows
\* is checked as if the let or for had not been there.
C16_ScopesRestored ==
    (IsScopeProg /\ ScopeInnerResult.err = "") =>
        /\ Len(ScopeInnerResult.st.vc) = Len(ScopeBefore.vc)
        /\ Len(ScopeInnerResult.st.tc) = Len(ScopeBefore.tc)
        /\ ScopeInnerResult.st.vc = ScopeBefore.vc
        /\ ScopeInnerResult.st.tc = ScopeBefore.tc
        /\ chk.err = ScopeWithout.err
        /\ chk.ty = ScopeWithout.ty

\* after a for over i whose body declares x as a string, the outer string
\* variable i is assigned a string: accepted
C16_Witness ==
    /\ IsScopeProg
    /\ prog[3][2][1] = ForUnit("i", Let(<<DecVar("x", FALSE, <<>>, StrE("s"))>>, UnitE))
    /\ prog[3][2][2] = Ass(Simple("i"), StrE("t"))
    /\ ScopeInnerResult.err = ""
    /\ CtxGet(ScopeInnerResult.st.vc, "i") = <<BindVar(TyStr, TRUE)>>
    /\ chk.err = ""

\* the tree translate gave for the program, as an expression, and the
\* expression whose value an expression has: the result of its ESeqs
MainExp == into_exp(Last(trn.done).body, trn).exp
RECURSIVE ValueOf(_)
ValueOf(e) == IF e[1] = "ESeq" THEN ValueOf(e[3]) ELSE e
\* what the body of a let of LetValues is translated to: the constant, or the
\* place the translator gave for the read of x
BodyValue(body) ==
    IF body[1] = "Int" THEN IConst(body[2])
    ELSE trn.log[Max(LogOf("var"))][4]

\* C22: the tree of a let carries the value of its body: as an expression,
\* let var x := 1 + 2 in b end has the value of b, alone and as an operand.
C22_LetCarriesBodyValue ==
    (Translated /\ prog \in LetValueProgs) =>
        IF prog[1] = "Let"
        THEN ValueOf(MainExp) = BodyValue(prog[3])
        ELSE /\ MainExp[1] = "Binop"
             /\ ValueOf(MainExp[2]) = BodyValue(prog[2][3])

(***************************************************************************)
(* Instruction tiler (src/src/assemble/tile.rs).  t is the Tiler: asm and  *)
(* spilled_args as in the source; next is the number of fresh temps handed *)
(* out, at the number of statements of the body tiled so far; panic is ""  *)
(* or the message of the internal-error exit taken, after which nothing    *)
(* more is emitted.  Operands and instructions are tuples led by the name  *)
(* of their variant: Binary <<form, src, dst>>, Unary <<form, operand>>.   *)
(***************************************************************************)
ValueImm(n)   == <<"Imm", n>>
ValueReg(t)   == <<"Reg", t>>
ValueMem(m)   == <<"Mem", m>>
ValueLabel(l) == <<"Label", l>>
NoValue       == <<"None">>

MemBRSO(b, r, s, o) == <<"BRSO", b, r, s, o>>
MemRSO(r, s, o)     == <<"RSO", r, s, o>>
MemRO(r, o)         == <<"RO", r, o>>
MemR(r)             == <<"R", r>>

Binary(form, src, dst) == <<form, src, dst>>
UnaryR(t)              == <<"R", t>>
UnaryM(m)              == <<"M", m>>

AsmMov(b)      == <<"Mov", b>>
AsmCmp(b)      == <<"Cmp", b>>
AsmBin(op, b)  == <<"Bin", op, b>>
AsmUn(op, u)   == <<"Un", op, u>>
AsmMul(u)      == <<"Mul", u>>
AsmDiv(u)      == <<"Div", u>>
AsmCqo         == <<"Cqo">>
AsmJmp(l)      == <<"Jmp", l>>
AsmJcc(cc, l)  == <<"Jcc", cc, l>>
AsmLabel(l)    == <<"Label", l>>
AsmComment(s)  == <<"Comment", s>>
AsmCall(l)     == <<"Call", l>>
AsmPush(u)     == <<"Push", u>>
AsmPop(u)      == <<"Pop", u>>
AsmRet         == <<"Ret">>

\* Tiler::default()
TilerDefault == [asm |-> <<>>, spilled_args |-> 0, panic |-> "", next |-> 0, at |-> 0]

TPush(t, ins)  == IF t.panic # "" THEN t ELSE [t EXCEPT !.asm = Append(@, ins)]
TPanic(t, msg) == IF t.panic # "" THEN t ELSE [t EXCEPT !.panic = msg]
TFresh(t)      == [t EXCEPT !.next = @ + 1]

\* Scale::try_from: the scales of x86 addressing; 0 stands for no scale
Scales == {1, 2, 4, 8}
scale_try_from(s) == IF s \in Scales THEN s ELSE 0

\* Reg::get_argument(i), i counted from 1 here, and Reg::get_return()
ArgumentRegs == <<"RDI", "RSI", "RDX", "RCX", "R8", "R9">>
get_argument(i) == Reg(ArgumentRegs[i])
get_return      == Reg("RAX")

\* ir::Binop::is_asm_binop and into_asm_binop
is_asm_binop(op) == op \in {"Add", "Sub", "And", "Or", "XOr"}
into_asm_binop(op) ==
    CASE op = "Add" -> "add"
      [] op = "Sub" -> "sub"
      [] op = "And" -> "and"
      [] op = "Or"  -> "or"
      [] op = "XOr" -> "xor"

\* From<ir::Relop> for asm::Relop: the condition code of the jump
relop_into(op) ==
    CASE op = "Eq" -> "e"
      [] op = "Ne" -> "ne"
      [] op = "Lt" -> "l"
      [] op = "Le" -> "le"
      [] op = "Gt" -> "g"
      [] op = "Ge" -> "ge"

\* asm::Binary::dest: the destination operand as a Value
BinaryDest(b) ==
    IF b[1] \in {"IM", "RM"} THEN ValueMem(b[3]) ELSE ValueReg(b[3])

\* Tiler::into_temp: [temp, t]
into_temp(value, t) ==
    IF t.panic # "" THEN [temp |-> NoValue, t |-> t]
    ELSE CASE value[1] = "Reg" -> [temp |-> value[2], t |-> t]
           [] value[1] = "Mem" ->
                 LET temp == TempFromStr("TILE_MEM", t.next)
                 IN  [temp |-> temp,
                      t    |-> TPush(TFresh(t), AsmMov(Binary("MR", value[2], temp)))]
           [] value[1] = "Imm" ->
                 LET temp == TempFromStr("TILE_IMM", t.next)
                 IN  [temp |-> temp,
                      t    |-> TPush(TFresh(t), AsmMov(Binary("IR", value[2], temp)))]
           [] OTHER -> [temp |-> NoValue, t |-> TPanic(t, "not yet implemented")]

IsBin(e, op) == e[1] = "Binop" /\ e[3] = op
IsConst(e)   == e[1] = "Const"
\* no expression taken for the constant n
IsConstOf_never(e, n) == FALSE

IsConstOf(e, n) == e[1] = "Const" /\ e[2] = n

\* r * Const(s), else Const(s) * r: <<r, s>>; <<>> when x is neither
IndexScale(x) ==
    IF IsBin(x, "Mul") /\ IsConst(x[4]) THEN <<x[2], x[4][2]>>
    ELSE IF IsBin(x, "Mul") /\ IsConst(x[2]) THEN <<x[4], x[2][2]>>
    ELSE <<>>

\* b + index, else index + b: <<b, r, s>>; <<>> when y is neither
BaseIndexScale(y) ==
    IF ~IsBin(y, "Add") THEN <<>>
    ELSE IF Len(IndexScale(y[4])) > 0 THEN <<y[2]>> \o IndexScale(y[4])
    ELSE IF Len(IndexScale(y[2])) > 0 THEN <<y[4]>> \o IndexScale(y[2])
    ELSE <<>>

\* tile_exp, the arms of Exp::Mem(a) in their order, lines 125-201: the first
\* pattern that matches the address a, with what it binds
MemPattern(a) ==
    IF IsBin(a, "Add") /\ IsConst(a[4]) /\ Len(BaseIndexScale(a[2])) > 0
      THEN <<"BRSO">> \o BaseIndexScale(a[2]) \o <<a[4][2]>>
    ELSE IF IsBin(a, "Add") /\ IsConst(a[2]) /\ Len(BaseIndexScale(a[4])) > 0
      THEN <<"BRSO">> \o BaseIndexScale(a[4]) \o <<a[2][2]>>
    ELSE IF IsBin(a, "Sub") /\ IsConst(a[4]) /\ Len(BaseIndexScale(a[2])) > 0
      THEN <<"BRSO">> \o BaseIndexScale(a[2]) \o <<-a[4][2]>>
    ELSE IF IsBin(a, "Add") /\ IsConst(a[4]) /\ Len(IndexScale(a[2])) > 0
      THEN <<"RSO">> \o IndexScale(a[2]) \o <<a[4][2]>>
    ELSE IF IsBin(a, "Add") /\ IsConst(a[2]) /\ Len(IndexScale(a[4])) > 0
      THEN <<"RSO">> \o IndexScale(a[4]) \o <<a[2][2]>>
    ELSE IF IsBin(a, "Sub") /\ IsConst(a[4]) /\ Len(IndexScale(a[2])) > 0
      THEN <<"RSO">> \o IndexScale(a[2]) \o <<-a[4][2]>>
    ELSE IF IsBin(a, "Add") /\ IsConst(a[4]) THEN <<"RO", a[2], a[4][2]>>
    ELSE IF IsBin(a, "Add") /\ IsConst(a[2]) THEN <<"RO", a[4], a[2][2]>>
    ELSE IF IsBin(a, "Sub") /\ IsConst(a[4]) THEN <<"RO", a[2], -a[4][2]>>
    ELSE <<"R", a>>


RECURSIVE tile_exp(_, _), tile_binary(_, _, _), tile_unop(_, _, _), tile_args(_, _, _, _)

\* tile_exp, lines 125-201: the operand of Exp::Mem(a); an address scale that
\* Scale::try_from does not take is an internal error
tile_mem(a, t) ==
    With(MemPattern(a), LAMBDA m :
        CASE m[1] = "BRSO" ->
                With(tile_exp(m[2], t), LAMBDA b :
                With(tile_exp(m[3], b.t), LAMBDA r :
                With(into_temp(b.val, r.t), LAMBDA bt :
                With(into_temp(r.val, bt.t), LAMBDA rt :
                With(scale_try_from(m[4]), LAMBDA s :
                    [val |-> ValueMem(MemBRSO(bt.temp, rt.temp, s, m[5])),
                     t   |-> IF s = 0 THEN TPanic(rt.t, "invalid scale") ELSE rt.t])))))
          [] m[1] = "RSO" ->
                With(tile_exp(m[2], t), LAMBDA r :
                With(into_temp(r.val, r.t), LAMBDA rt :
                With(scale_try_from(m[3]), LAMBDA s :
                    [val |-> ValueMem(MemRSO(rt.temp, s, m[4])),
                     t   |-> IF s = 0 THEN TPanic(rt.t, "invalid scale") ELSE rt.t])))
          [] m[1] = "RO" ->
                With(tile_exp(m[2], t), LAMBDA r :
                With(into_temp(r.val, r.t), LAMBDA rt :
                    [val |-> ValueMem(MemRO(rt.temp, m[3])), t |-> rt.t]))
          [] m[1] = "R" ->
                With(tile_exp(m[2], t), LAMBDA r :
                With(into_temp(r.val, r.t), LAMBDA rt :
                    [val |-> ValueMem(MemR(rt.temp)), t |-> rt.t])))

\* the left operand brought to a temp first, whatever it is
move_l_tile_rr(val, t) ==
    With(into_temp(val, t), LAMBDA x :
        [binary |-> Binary("RR", x.temp, Reg("RAX")), t |-> x.t])

\* tile_exp, lines 234-238: the left operand moved into RAX, [binary, t]
move_l_tile(val, t) ==
    CASE val[1] = "Imm" -> [binary |-> Binary("IR", val[2], Reg("RAX")), t |-> t]
      [] val[1] = "Mem" -> [binary |-> Binary("MR", val[2], Reg("RAX")), t |-> t]
      [] OTHER -> With(into_temp(val, t), LAMBDA x :
                      [binary |-> Binary("RR", x.temp, Reg("RAX")), t |-> x.t])

\* tile_exp, lines 240-243: the right operand as the operand of the
\* instruction, [unary, t]
use_r_tile(val, t) ==
    CASE val[1] = "Mem" -> [unary |-> UnaryM(val[2]), t |-> t]
      [] OTHER -> With(into_temp(val, t), LAMBDA x : [unary |-> UnaryR(x.temp), t |-> x.t])

\* tile_exp, lines 226-259: Mul and Div through RAX
tile_mul_div(l, op, r, t) ==
    With(tile_exp(l, t), LAMBDA l_tile :
    With(tile_exp(r, l_tile.t), LAMBDA r_tile :
        IF r_tile.t.panic # "" THEN [val |-> NoValue, t |-> r_tile.t]
        ELSE
    With(TempFromStr("TILE_DIV_MUL", r_tile.t.next), LAMBDA res :
    With(move_l_tile(l_tile.val, TFresh(r_tile.t)), LAMBDA ml :
    With(use_r_tile(r_tile.val, ml.t), LAMBDA ur :
    With(TPush(ur.t, AsmMov(ml.binary)), LAMBDA t2 :
        [val |-> ValueReg(res),
         t   |-> TPush(CASE op = "Mul" -> TPush(t2, AsmMul(ur.unary))
                         [] op = "Div" -> TPush(TPush(t2, AsmCqo), AsmDiv(ur.unary))
                         [] OTHER      -> TPanic(t2, "unreachable"),
                       AsmMov(Binary("RR", Reg("RAX"), res)))]))))))

\* tile_call keeping the spill count of the latest call only
tile_call_last_spill(label, args, t) ==
    With(tile_args(args, 1, 0, TFresh(t)), LAMBDA a :
        IF a.t.panic # "" THEN [val |-> NoValue, t |-> a.t]
        ELSE [val |-> ValueReg(TempFromStr("TILE_CALL", t.next)),
              t   |-> TPush(TPush([a.t EXCEPT !.spilled_args = a.arg_offset],
                                  AsmCall(label)),
                            AsmMov(Binary("RR", get_return,
                                          TempFromStr("TILE_CALL", t.next))))])

\* tile_exp, lines 260-321: a call of a label
tile_call(label, args, t) ==
    With(tile_args(args, 1, 0, TFresh(t)), LAMBDA a :
        IF a.t.panic # "" THEN [val |-> NoValue, t |-> a.t]
        ELSE [val |-> ValueReg(TempFromStr("TILE_CALL", t.next)),
              t   |-> TPush(TPush([a.t EXCEPT !.spilled_args = Max({@, a.arg_offset})],
                                  AsmCall(label)),
                            AsmMov(Binary("RR", get_return,
                                          TempFromStr("TILE_CALL", t.next))))])

\* Tiler::tile_exp: [val, t]
tile_exp(exp, t) ==
    IF t.panic # "" THEN [val |-> NoValue, t |-> t]
    ELSE CASE exp[1] = "Const" -> [val |-> ValueImm(exp[2]), t |-> t]
           [] exp[1] = "Name"  -> [val |-> ValueLabel(exp[2]), t |-> t]
           [] exp[1] = "Temp"  -> [val |-> ValueReg(exp[2]), t |-> t]
           [] exp[1] = "ESeq"  ->
                 [val |-> NoValue, t |-> TPanic(t, "no ESeq expression in canonical IR")]
           [] exp[1] = "Mem"   -> tile_mem(exp[2], t)
           [] exp[1] = "Binop" ->
                 LET l  == exp[2]
                     op == exp[3]
                     r  == exp[4]
                 IN  IF op = "Sub" /\ IsConstOf(l, 0) THEN tile_unop(r, "Neg", t)
                     ELSE IF op = "Add" /\ IsConstOf(r, 1) THEN tile_unop(l, "Inc", t)
                     ELSE IF op = "Add" /\ IsConstOf(l, 1) THEN tile_unop(r, "Inc", t)
                     ELSE IF op = "Sub" /\ IsConstOf(r, 1) THEN tile_unop(l, "Dec", t)
                     ELSE IF is_asm_binop(op)
                       THEN With(tile_binary(l, r, t), LAMBDA b :
                                IF b.t.panic # "" THEN [val |-> NoValue, t |-> b.t]
                                ELSE [val |-> BinaryDest(b.binary),
                                      t   |-> TPush(b.t, AsmBin(into_asm_binop(op), b.binary))])
                     ELSE tile_mul_div(l, op, r, t)
           [] exp[1] = "Call"  ->
                 IF exp[2][1] = "Name" THEN tile_call(exp[2][2], exp[3], t)
                 ELSE [val |-> NoValue, t |-> TPanic(t, "calling non-label")]

\* tile_exp, lines 265-309: the moves of the arguments from the i-th on,
\* [arg_offset, t]
tile_args(args, i, arg_offset, t) ==
    IF i > Len(args) \/ t.panic # "" THEN [arg_offset |-> arg_offset, t |-> t]
    ELSE With(tile_exp(args[i], t), LAMBDA v :
             IF v.t.panic # "" THEN [arg_offset |-> arg_offset, t |-> v.t]
             ELSE IF v.val[1] = "Mem" /\ i <= Len(ArgumentRegs)
               THEN tile_args(args, i + 1, arg_offset,
                        TPush(v.t, AsmMov(Binary("MR", v.val[2], get_argument(i)))))
             ELSE With(into_temp(v.val, v.t), LAMBDA x :
                 IF i <= Len(ArgumentRegs)
                   THEN tile_args(args, i + 1, arg_offset,
                            TPush(x.t, AsmMov(Binary("RR", x.temp, get_argument(i)))))
                 ELSE tile_args(args, i + 1, arg_offset + 1,
                          TPush(x.t, AsmMov(Binary("RM", x.temp,
                                   MemRO(Reg("RSP"), (arg_offset + 1) * WORD_SIZE)))))))

\* Tiler::tile_binary: [binary, t]
tile_binary(lhs, rhs, t) ==
    With(tile_exp(lhs, t), LAMBDA l :
    With(tile_exp(rhs, l.t), LAMBDA r :
        IF r.t.panic # "" THEN [binary |-> NoValue, t |-> r.t]
        ELSE CASE l.val[1] = "Imm" /\ r.val[1] = "Reg" ->
                     [binary |-> Binary("IR", l.val[2], r.val[2]), t |-> r.t]
               [] l.val[1] = "Imm" /\ r.val[1] = "Mem" ->
                     [binary |-> Binary("IM", l.val[2], r.val[2]), t |-> r.t]
               [] l.val[1] = "Mem" /\ r.val[1] = "Reg" ->
                     [binary |-> Binary("MR", l.val[2], r.val[2]), t |-> r.t]
               [] l.val[1] # "Imm" /\ r.val[1] = "Mem" ->
                     With(into_temp(l.val, r.t), LAMBDA temp :
                         [binary |-> Binary("RM", temp.temp, r.val[2]), t |-> temp.t])
               [] OTHER ->
                     With(into_temp(l.val, r.t), LAMBDA temp_a :
                     With(into_temp(r.val, temp_a.t), LAMBDA temp_b :
                         [binary |-> Binary("RR", temp_a.temp, temp_b.temp),
                          t      |-> temp_b.t]))))

\* Tiler::tile_unop: [val, t]
tile_unop(exp, unop, t) ==
    With(tile_exp(exp, t), LAMBDA v :
        IF v.t.panic # "" THEN [val |-> NoValue, t |-> v.t]
        ELSE IF v.val[1] = "Mem"
          THEN [val |-> v.val, t |-> TPush(v.t, AsmUn(unop, UnaryM(v.val[2])))]
        ELSE With(into_temp(v.val, v.t), LAMBDA temp :
                 [val |-> ValueReg(temp.temp),
                  t   |-> TPush(temp.t, AsmUn(unop, UnaryR(temp.temp)))]))

\* Tiler::tile_stm: the Tiler after the statement
tile_stm(stm, t) ==
    CASE stm[1] = "Exp"     -> TPanic(t, "no Exp statement in canonical IR")
      [] stm[1] = "Seq"     -> TPanic(t, "no Seq statement in canonical IR")
      [] stm[1] = "Comment" -> TPush(t, AsmComment(stm[2]))
      [] stm[1] = "Label"   -> TPush(t, AsmLabel(stm[2]))
      [] stm[1] = "Jump"    ->
            IF stm[2][1] = "Name" THEN TPush(t, AsmJmp(stm[2][2]))
            ELSE TPanic(t, "can only jump to labels")
      [] stm[1] = "Move"    ->
            With(tile_binary(stm[2], stm[3], t), LAMBDA b : TPush(b.t, AsmMov(b.binary)))
      [] stm[1] = "CJump"   ->
            With(tile_binary(stm[2], stm[4], t), LAMBDA b :
                TPush(TPush(b.t, AsmCmp(b.binary)), AsmJcc(relop_into(stm[3]), stm[5])))

\* tile, lines 15-42: the fixed prologue and epilogue around the tiled body
StoreTemps(n) ==
    [i \in 1..5 |-> TempFromStr(<<"STORE_RBX", "STORE_R12", "STORE_R13",
                                  "STORE_R14", "STORE_R15">>[i], n + i - 1)]
CalleeSaved == <<"RBX", "R12", "R13", "R14", "R15">>
prologue(n) ==
    <<AsmPush(UnaryR(Reg("RBP"))),
      AsmMov(Binary("RR", Reg("RSP"), Reg("RBP"))),
      AsmComment("REPLACE WITH RSP SUBTRACTION")>>
    \o [i \in 1..5 |-> AsmMov(Binary("RR", Reg(CalleeSaved[i]), StoreTemps(n)[i]))]
epilogue(n) ==
    [i \in 1..5 |-> AsmMov(Binary("RR", StoreTemps(n)[i], Reg(CalleeSaved[i])))]
    \o <<AsmComment("REPLACE WITH RSP ADDITION"),
         AsmMov(Binary("RR", Reg("RBP"), Reg("RSP"))),
         AsmPop(UnaryR(Reg("RBP"))),
         AsmRet>>


(***************************************************************************)
(* Canonical bodies.  The canonicalizer takes a frame's statement to a     *)
(* flat list with no ESeq, no Seq and no Exp statement.  Here it is        *)
(* defined on the statements that need no rewriting of expressions: the    *)
(* statements under nested Seq in their order, without the Exp statements  *)
(* of a constant, a temp or a name, which have no effect.                  *)
(***************************************************************************)
RECURSIVE canonize(_), canonize_all(_, _)
canonize(stm) ==
    CASE stm[1] = "Seq" -> canonize_all(stm[2], 1)
      [] stm[1] = "Exp" /\ stm[2][1] \in {"Const", "Temp", "Name"} -> <<>>
      [] OTHER -> <<stm>>
canonize_all(stms, i) ==
    IF i > Len(stms) THEN <<>> ELSE canonize(stms[i]) \o canonize_all(stms, i + 1)

RECURSIVE HasESeq(_)
HasESeq(e) ==
    CASE e[1] = "ESeq"  -> TRUE
      [] e[1] = "Mem"   -> HasESeq(e[2])
      [] e[1] = "Binop" -> HasESeq(e[2]) \/ HasESeq(e[4])
      [] e[1] = "Call"  -> HasESeq(e[2]) \/ \E i \in 1..Len(e[3]) : HasESeq(e[3][i])
      [] OTHER          -> FALSE

\* a flat list with no ESeq, no Seq and no Exp statement
IsCanonical(stms) ==
    \A i \in 1..Len(stms) :
        CASE stms[i][1] \in {"Seq", "Exp"} -> FALSE
          [] stms[i][1] = "Move"  -> ~HasESeq(stms[i][2]) /\ ~HasESeq(stms[i][3])
          [] stms[i][1] = "CJump" -> ~HasESeq(stms[i][2]) /\ ~HasESeq(stms[i][4])
          [] stms[i][1] = "Jump"  -> ~HasESeq(stms[i][2])
          [] OTHER -> TRUE

(***************************************************************************)
(* The bodies the tiler is run on.                                         *)
(***************************************************************************)
MaxCallArgs == 7    \* number of actuals of a tiled call

\* programs of one variable declaration, whose translation needs no rewriting
VarInits ==
    {StrE("a"), IntE(1), Neg(IntE(2)),
     Call("size", <<StrE("a")>>), Call("ord", <<StrE("a")>>), Call("chr", <<IntE(1)>>),
     Call("concat", <<StrE("a"), StrE("b")>>), Call("getchar", <<>>)}
      \cup {Bin(IntE(l), op, IntE(r)) : l \in {0, 1, 2}, r \in {1, 2},
                                        op \in {"Add", "Sub", "Mul", "Div"}}
TileProgs ==
    {Let(<<DecVar("v", esc, <<>>, init)>>, IntE(1)) : esc \in BOOLEAN, init \in VarInits}

\* statements over two temps, a label and small constants
TempA  == ITemp(TempFromStr("a", 0))
TempB  == ITemp(TempFromStr("b", 0))
LabelL == LabelFromStr("l", 0)
IRAtoms == {IConst(0), IConst(1), IConst(5), TempA, IName(LabelL), IMem(TempB)}
\* the scales of x86 addressing, and 3
IRScales == {1, 2, 3, 4, 8}
IRIndex ==
    UNION {{IBinop(TempB, "Mul", IConst(s)), IBinop(IConst(s), "Mul", TempB)} : s \in IRScales}
IRAddrs ==
    UNION {{IBinop(IBinop(TempA, "Add", x), "Add", IConst(4)),
            IBinop(IBinop(x, "Add", TempA), "Add", IConst(4)),
            IBinop(IBinop(TempA, "Add", x), "Sub", IConst(4)),
            IBinop(IBinop(x, "Add", TempA), "Sub", IConst(4)),
            IBinop(IConst(4), "Add", IBinop(TempA, "Add", x)),
            IBinop(IConst(4), "Add", IBinop(x, "Add", TempA)),
            IBinop(x, "Add", IConst(4)), IBinop(x, "Sub", IConst(4)),
            IBinop(IConst(4), "Add", x), x} : x \in IRIndex}
      \cup {IBinop(TempA, "Add", IConst(4)), IBinop(IConst(4), "Add", TempA),
            IBinop(TempA, "Sub", IConst(4)), IBinop(TempA, "Add", TempB), TempA}
IRBinops ==
    {IBinop(l, op, r) : l \in IRAtoms, r \in IRAtoms,
                        op \in {"Add", "Sub", "Mul", "Div", "And", "Or", "XOr"}}
IRCalls ==
    {ICall(IName(from_fixed("f")), [i \in 1..n |-> x]) :
        n \in 0..MaxCallArgs, x \in {IConst(1), TempA, IMem(TempB), IName(LabelL)}}
      \cup {ICall(TempA, <<>>)}
\* products and quotients of operands that take instructions of their own
IRNestedOperands ==
    {TempA, IConst(5), IMem(IBinop(TempA, "Add", IConst(4))),
     IBinop(TempA, "Add", IConst(5)), IBinop(TempA, "Div", TempB),
     ICall(IName(from_fixed("f")), <<TempA>>)}
IRNestedMulDiv ==
    {IBinop(l, op, r) : l \in IRNestedOperands, r \in IRNestedOperands, op \in {"Mul", "Div"}}
IRExps == IRAtoms \cup {IMem(a) : a \in IRAddrs} \cup IRBinops \cup IRCalls
            \cup IRNestedMulDiv
\* sums and differences that read the temp b or the cell at b
IRReadOperands == {TempB, IMem(TempB)}
IRReadExps ==
    UNION {{IBinop(o, "Add", IConst(1)), IBinop(o, "Sub", IConst(1)),
            IBinop(IConst(0), "Sub", o), IBinop(IConst(5), "Add", o),
            IBinop(o, "Sub", IConst(5))} : o \in IRReadOperands}
IRStms ==
    {SMove(e, TempA) : e \in IRExps \cup IRReadExps}
      \cup {SMove(e, IMem(TempB)) : e \in IRAtoms}
      \cup {SCJump(l, op, r, LabelL, LabelL) : l \in IRAtoms, r \in IRAtoms, op \in {"Eq", "Lt"}}
      \cup {SJump(IName(LabelL), <<LabelL>>), SJump(TempA, <<>>), SLabel(LabelL),
            SComment("c")}
\* two calls in a row, and a call as the argument of a call, with none, six
\* and more than six actuals
CallOf(n) == ICall(IName(from_fixed("f")), [i \in 1..n |-> TempA])
CallSizes == {0, MaxCallArgs - 1, MaxCallArgs, MaxCallArgs + 1}
IRCallUnits ==
    {<<SMove(CallOf(n), TempA), SMove(CallOf(m), TempA)>> : n, m \in CallSizes}
      \cup {<<SMove(ICall(IName(from_fixed("g")), <<CallOf(n)>> \o [i \in 1..m |-> IConst(1)]),
                     TempA)>> : n, m \in CallSizes}
\* calls with an actual that takes instructions of its own, a quotient, a
\* product or a call, before or after actuals that are temps
IRBusyActuals ==
    {IBinop(TempA, "Div", TempB), IBinop(TempA, "Mul", TempB),
     ICall(IName(from_fixed("g")), <<IConst(1)>>)}
IRBusyCalls ==
    UNION {{ICall(IName(from_fixed("f")), <<x, TempA>>),
            ICall(IName(from_fixed("f")), <<TempA, x>>),
            ICall(IName(from_fixed("f")), <<TempA, TempA, TempA, x>>)} : x \in IRBusyActuals}
IRUnits ==
    {<<s>> : s \in IRStms} \cup IRCallUnits \cup {<<SMove(c, TempA)>> : c \in IRBusyCalls}
      \cup {<<SLabel(LabelL), s, SJump(IName(LabelL), <<LabelL>>)>> :
               s \in {SMove(e, TempA) : e \in IRCalls}}
      \cup {<<>>}

(***************************************************************************)
(* The tiler run: tile takes the statements of a canonical body in order,  *)
(* then wraps what they gave in the prologue and the epilogue.             *)
(***************************************************************************)
InitTile ==
    \/ /\ pc = "canonical"
       /\ prog \in TileProgs
       /\ chk = check(prog)
       /\ chk.err = ""
       /\ trn = translate(prog)
       /\ trn.panic = ""
       /\ unit = canonize(into_stm(Last(trn.done).body, trn).stm)
       /\ IsCanonical(unit)
       /\ tiler = TilerDefault
       /\ run = NoRun
    \/ /\ pc = "canonical"
       /\ prog = UnitE
       /\ chk = NoResult
       /\ trn = NoTranslation
       /\ unit \in IRUnits
       /\ IsCanonical(unit)
       /\ tiler = TilerDefault
       /\ run = NoRun

\* tile, line 13: one turn of the loop over ir.body
TileStm ==
    /\ pc = "canonical"
    /\ tiler.panic = ""
    /\ tiler.at < Len(unit)
    /\ tiler' = [tile_stm(unit[tiler.at + 1], tiler) EXCEPT !.at = @ + 1]
    /\ UNCHANGED <<pc, prog, chk, trn, unit, run>>

\* tile, lines 15-49
TileWrap ==
    /\ pc = "canonical"
    /\ tiler.panic = ""
    /\ tiler.at = Len(unit)
    /\ tiler' = [tiler EXCEPT !.asm  = prologue(tiler.next) \o @ \o epilogue(tiler.next),
                              !.next = @ + 5]
    /\ pc' = "tiled"
    /\ UNCHANGED <<prog, chk, trn, unit, run>>

NextTile == TileStm \/ TileWrap

SpecTile == InitTile /\ [][NextTile]_vars

\* C6: tile reaches no panic on the canonical body of a program that check
\* accepted and translate took without an internal error, a body that moves a
\* string literal's Name or passes it to a call included.
C6_TileNeverPanics ==
    (chk.err = "" /\ trn.panic = "" /\ pc \in {"canonical", "tiled"}) => tiler.panic = ""

\* the memory operands of an instruction
BinaryMems(b) ==
    (IF b[1] = "MR" THEN {b[2]} ELSE {}) \cup (IF b[1] \in {"RM", "IM"} THEN {b[3]} ELSE {})
UnaryMems(u) == IF u[1] = "M" THEN {u[2]} ELSE {}
MemOperands(ins) ==
    CASE ins[1] \in {"Mov", "Cmp"} -> BinaryMems(ins[2])
      [] ins[1] = "Bin" -> BinaryMems(ins[3])
      [] ins[1] = "Un"  -> UnaryMems(ins[3])
      [] ins[1] \in {"Mul", "Div", "Push", "Pop"} -> UnaryMems(ins[2])
      [] OTHER -> {}
AsmMems == UNION {MemOperands(tiler.asm[i]) : i \in 1..Len(tiler.asm)}

\* base a, index b times s, offset 4 or -4: the twelve orderings of the
\* address, each with the offset it stands for
BRSOShapes(s) ==
    UNION {{<<IBinop(IBinop(TempA, "Add", x), "Add", IConst(4)), 4>>,
            <<IBinop(IBinop(x, "Add", TempA), "Add", IConst(4)), 4>>,
            <<IBinop(IConst(4), "Add", IBinop(TempA, "Add", x)), 4>>,
            <<IBinop(IConst(4), "Add", IBinop(x, "Add", TempA)), 4>>,
            <<IBinop(IBinop(TempA, "Add", x), "Sub", IConst(4)), -4>>,
            <<IBinop(IBinop(x, "Add", TempA), "Sub", IConst(4)), -4>>} :
           x \in {IBinop(TempB, "Mul", IConst(s)), IBinop(IConst(s), "Mul", TempB)}}
\* the one statement of the unit, a load from the address shape sh[1], is tiled
LoadTiled(sh) == pc = "canonical" /\ tiler.at = 1 /\ unit = <<SMove(IMem(sh[1]), TempA)>>

\* a load from base + index*s +- offset with s in {1, 2, 4, 8} is one mov
\* whose source is the BRSO operand with that scale and offset
BRSOForScales ==
    \A s \in IRScales \cap Scales : \A sh \in BRSOShapes(s) :
        LoadTiled(sh) =>
            /\ tiler.panic = ""
            /\ tiler.asm = <<AsmMov(Binary("MR", MemBRSO(TempA[2], TempB[2], s, sh[2]), TempA[2]))>>

\* C17: Mem(base + idx*s + o), in any matched ordering and with - o, tiles to
\* a single BRSO operand with scale s and offset o (negated for -) when s is
\* 1, 2, 4 or 8; for any other s the tiler does not fail and produces no
\* BRSO operand, but multiplies explicitly.
C17_BRSOOnlyForValidScales ==
    /\ BRSOForScales
    /\ \A s \in IRScales \ Scales : \A sh \in BRSOShapes(s) :
          LoadTiled(sh) =>
              /\ tiler.panic = ""
              /\ \A m \in AsmMems : m[1] # "BRSO"
              /\ \E i \in 1..Len(tiler.asm) : tiler.asm[i][1] = "Mul"


\* the one statement of the unit, Move(x, Temp a), is tiled
MoveTiled(x) == pc = "canonical" /\ tiler.at = 1 /\ unit = <<SMove(x, TempA)>>
AsmAt(kind) == {i \in 1..Len(tiler.asm) : tiler.asm[i][1] = kind}
\* Move(x, Temp a) is tiled without failure to one unary instruction, the one
\* named unop, and to no two-operand arithmetic instruction
UnopTiled(x, unop) ==
    MoveTiled(x) =>
        /\ tiler.panic = ""
        /\ Cardinality(AsmAt("Un")) = 1
        /\ \A i \in AsmAt("Un") : tiler.asm[i][2] = unop
        /\ AsmAt("Bin") = {}
\* operands that tile to an immediate, a register and a memory operand
UnopOperands == {IConst(0), IConst(1), IConst(5), TempA, IMem(TempB)}

\* C18 as stated: 0 - e is neg, e + 1 and 1 + e are inc, e - 1 is dec, and
\* none is a two-operand sub or add, whatever e tiles to.
C18_UnaryIdioms ==
    \A e \in UnopOperands :
        /\ UnopTiled(IBinop(IConst(0), "Sub", e), "Neg")
        /\ UnopTiled(IBinop(e, "Add", IConst(1)), "Inc")
        /\ UnopTiled(IBinop(IConst(1), "Add", e), "Inc")
        /\ UnopTiled(IBinop(e, "Sub", IConst(1)), "Dec")

\* C18, amended: as stated, but e - 1 is dec only when e is not Const 0:
\* 0 - 1 is matched by the negation arm, which comes first, and is neg.
C18_UnaryIdiomsInArmOrder ==
    \A e \in UnopOperands :
        /\ UnopTiled(IBinop(IConst(0), "Sub", e), "Neg")
        /\ UnopTiled(IBinop(e, "Add", IConst(1)), "Inc")
        /\ UnopTiled(IBinop(IConst(1), "Add", e), "Inc")
        /\ e # IConst(0) => UnopTiled(IBinop(e, "Sub", IConst(1)), "Dec")

\* Mem(b) - 1 has been tiled: dec on the memory operand
C18_Witness ==
    /\ MoveTiled(IBinop(IMem(TempB), "Sub", IConst(1)))
    /\ tiler.panic = ""
    /\ \E i \in AsmAt("Un") : tiler.asm[i] = AsmUn("Dec", UnaryM(MemR(TempB[2])))


\* Move(Binop(l, op, r), Temp a) with op Mul or Div is tiled without failure
MulDivTiled ==
    /\ pc = "canonical" /\ tiler.at = 1 /\ tiler.panic = ""
    /\ Len(unit) = 1
    /\ unit[1][1] = "Move" /\ unit[1][3] = TempA
    /\ unit[1][2][1] = "Binop" /\ unit[1][2][3] \in {"Mul", "Div"}
MovesInto(ins, temp) == ins[1] = "Mov" /\ ins[2][3] = temp
\* the instruction at i moves RAX to a temp named TILE_DIV_MUL
TakesResult(i) ==
    /\ i <= Len(tiler.asm)
    /\ tiler.asm[i][1] = "Mov"
    /\ tiler.asm[i][2][1] = "RR" /\ tiler.asm[i][2][2] = Reg("RAX")
    /\ tiler.asm[i][2][3][1] = "T" /\ tiler.asm[i][2][3][2] = "TILE_DIV_MUL"
\* the move into RAX that the left operand l gives, when l is an atom
LeftMove(l) ==
    CASE l[1] = "Const" -> Binary("IR", l[2], Reg("RAX"))
      [] l[1] = "Temp"  -> Binary("RR", l[2], Reg("RAX"))
      [] l = IMem(TempB) -> Binary("MR", MemR(TempB[2]), Reg("RAX"))
\* a div is the third of mov into RAX, cqo, div, mov from RAX; a mul is the
\* second of mov into RAX, mul, mov from RAX; its operand is a register or
\* a memory operand
DivSequenceAt(i) ==
    /\ i >= 3
    /\ MovesInto(tiler.asm[i - 2], Reg("RAX"))
    /\ tiler.asm[i - 1] = AsmCqo
    /\ tiler.asm[i][2][1] \in {"R", "M"}
    /\ TakesResult(i + 1)
MulSequenceAt(i) ==
    /\ i >= 2
    /\ MovesInto(tiler.asm[i - 1], Reg("RAX"))
    /\ tiler.asm[i][2][1] \in {"R", "M"}
    /\ TakesResult(i + 1)

\* C19: a division is emitted as mov left -> RAX, cqo, div right, mov RAX ->
\* result, a multiplication as the same without cqo and with mul; the
\* instructions that tile the operands all come before the mov into RAX, and
\* the sequence is the last thing emitted for the expression.
C19_MulDivSequence ==
    MulDivTiled =>
        /\ \A i \in AsmAt("Div") : DivSequenceAt(i)
        /\ \A i \in AsmAt("Mul") : MulSequenceAt(i)
        \* the outer operator: its sequence ends the expression, and the
        \* statement's own move of the result follows
        /\ With(Len(tiler.asm), LAMBDA n :
              /\ n >= 4
              /\ tiler.asm[n - 2][1] = unit[1][2][3]
              /\ TakesResult(n - 1)
              /\ tiler.asm[n] = AsmMov(Binary("RR", tiler.asm[n - 1][2][3], TempA[2])))
        \* atoms as operands: one mul or div, the left operand moved as it is
        /\ (unit[1][2][2] \in IRAtoms /\ unit[1][2][4] \in IRAtoms) =>
              /\ Cardinality(AsmAt("Div") \cup AsmAt("Mul")) = 1
              /\ Cardinality(AsmAt("Cqo")) = Cardinality(AsmAt("Div"))
              /\ \E i \in 1..Len(tiler.asm) : tiler.asm[i] = AsmMov(LeftMove(unit[1][2][2]))

\* (a / b) / f(a) has been tiled: the inner division and the call come before
\* the outer mov into RAX
C19_Witness ==
    /\ MulDivTiled
    /\ unit[1][2] = IBinop(IBinop(TempA, "Div", TempB), "Div",
                           ICall(IName(from_fixed("f")), <<TempA>>))
    /\ Cardinality(AsmAt("Div")) = 2
    /\ AsmAt("Call") # {}
    /\ \A c \in AsmAt("Call") : c < Len(tiler.asm) - 4


\* the numbers of actuals of the calls in a statement or expression
RECURSIVE CallArities(_)
CallArities(x) ==
    CASE x[1] = "Call"  -> {Len(x[3])} \cup CallArities(x[2])
                             \cup UNION {CallArities(x[3][i]) : i \in 1..Len(x[3])}
      [] x[1] = "Binop" -> CallArities(x[2]) \cup CallArities(x[4])
      [] x[1] = "Mem"   -> CallArities(x[2])
      [] x[1] = "Move"  -> CallArities(x[2]) \cup CallArities(x[3])
      [] x[1] = "Jump"  -> CallArities(x[2])
      [] x[1] = "CJump" -> CallArities(x[2]) \cup CallArities(x[4])
      [] OTHER          -> {}
\* max(0, n - 6) over the calls of the statements tiled so far
SpillsSoFar ==
    Max({0} \cup {n - 6 : n \in UNION {CallArities(unit[k]) : k \in 1..tiler.at}})

\* the argument registers in their order, and the place of the i-th actual
CallRegs == <<"RDI", "RSI", "RDX", "RCX", "R8", "R9">>
ArgPlace(i) ==
    IF i <= 6 THEN Reg(CallRegs[i]) ELSE MemRO(Reg("RSP"), (i - 6) * WORD_SIZE)
IsArgPlace(d) ==
    \/ \E i \in 1..6 : d = Reg(CallRegs[i])
    \/ d[1] = "RO" /\ d[2] = Reg("RSP")
\* the destinations of the moves to argument registers and stack slots, in
\* the order of emission
ArgMoves ==
    With(SelectSeq(tiler.asm, LAMBDA ins : ins[1] = "Mov" /\ IsArgPlace(ins[2][3])), LAMBDA ms :
        [i \in 1..Len(ms) |-> ms[i][2][3]])
\* Move(Call(Name f, args), Temp a), args atoms, is tiled without failure
CallTiled ==
    /\ pc = "canonical" /\ tiler.at = 1 /\ tiler.panic = ""
    /\ Len(unit) = 1
    /\ unit[1][1] = "Move" /\ unit[1][3] = TempA
    /\ unit[1][2] \in IRCalls
CallStateOk ==
    /\ (pc = "canonical" /\ tiler.panic = "") => tiler.spilled_args = SpillsSoFar
    /\ CallTiled =>
          With(Len(tiler.asm), LAMBDA n :
              /\ ArgMoves = [i \in 1..Len(unit[1][2][3]) |-> ArgPlace(i)]
              /\ n >= 3
              /\ tiler.asm[n - 2] = AsmCall(unit[1][2][2][2])
              /\ tiler.asm[n - 1][1] = "Mov"
              /\ tiler.asm[n - 1][2][1] = "RR" /\ tiler.asm[n - 1][2][2] = Reg("RAX")
              /\ tiler.asm[n - 1][2][3][2] = "TILE_CALL"
              /\ \A i \in 1..(n - 2) : ~MovesInto(tiler.asm[i], tiler.asm[n - 1][2][3])
              /\ tiler.asm[n] = AsmMov(Binary("RR", tiler.asm[n - 1][2][3], TempA[2])))

\* C20: a call of a label with n actuals moves actual i <= 6 into the i-th of
\* RDI, RSI, RDX, RCX, R8, R9 and actual 6 + k to [RSP + k * WORD_SIZE], then
\* emits call label and a mov of RAX into a fresh temp, the result; with the
\* statements tiled so far spilled_args is the maximum of max(0, n - 6) over
\* their calls, and no step of the tiler decreases it.
C20_CallSequenceAndSpills ==
    /\ []CallStateOk
    /\ [][tiler'.spilled_args >= tiler.spilled_args]_vars

\* f with 8 actuals then f with none: spilled_args is 2 after both
C20_Witness ==
    /\ pc = "canonical" /\ tiler.panic = ""
    /\ unit = <<SMove(CallOf(MaxCallArgs + 1), TempA), SMove(CallOf(0), TempA)>>
    /\ tiler.at = 2
    /\ tiler.spilled_args = MaxCallArgs + 1 - 6
    /\ Cardinality(AsmAt("Call")) = 2


(***************************************************************************)
(* The translated program at run time, as far as its calls go: a stack of  *)
(* activations [fn, link], fn the label of the function and link the place *)
(* in the stack of the activation its STATIC_LINK slot points to (0 for    *)
(* main).  A call pushes an activation whose link is the value of the      *)
(* call's first actual, evaluated in the caller's activation.              *)
(***************************************************************************)
MaxStack == 4    \* activations on the stack

\* the calls in a tree, statement or expression: <<label, actuals>>
RECURSIVE CallSites(_)
CallSites(x) ==
    CASE x[1] = "Call"  -> (IF x[2][1] = "Name" THEN {<<x[2][2], x[3]>>} ELSE {})
                             \cup UNION {CallSites(x[3][i]) : i \in 1..Len(x[3])}
      [] x[1] = "Seq"   -> UNION {CallSites(x[2][i]) : i \in 1..Len(x[2])}
      [] x[1] \in {"Move", "ESeq"} -> CallSites(x[2]) \cup CallSites(x[3])
      [] x[1] \in {"Exp", "Mem", "Ex", "Nx", "Jump"} -> CallSites(x[2])
      [] x[1] \in {"Binop", "CJump", "Cx"} -> CallSites(x[2]) \cup CallSites(x[4])
      [] OTHER          -> {}

\* the finished frame of the function labelled fn, and the labels of all
DoneOf(fn) == CHOOSE d \in {trn.done[k] : k \in 1..Len(trn.done)} : d.frame.label = fn
DoneLabels == {trn.done[k].frame.label : k \in 1..Len(trn.done)}

\* the activation a frame-pointer expression denotes in the activation at k:
\* RBP is k itself, a load from the STATIC_LINK slot of a frame is that
\* frame's link; 0 when the expression is neither
RECURSIVE FrameValue(_, _, _)
FrameValue(e, stack, k) ==
    IF k = 0 THEN 0
    ELSE IF e = RBP THEN k
    ELSE IF e[1] = "Mem" /\ e[2][1] = "Binop" /\ e[2][3] = "Sub"
            /\ <<e>> = FrameGet(DoneOf(stack[k].fn).frame, "STATIC_LINK", e[2][2])
      THEN With(FrameValue(e[2][2], stack, k), LAMBDA b :
               IF b = 0 THEN 0 ELSE stack[b].link)
    ELSE 0

InitRun ==
    /\ pc = "running"
    /\ prog \in LinkProgs
    /\ chk = check(prog)
    /\ chk.err = ""
    /\ trn = translate(prog)
    /\ trn.panic = ""
    /\ unit = <<>>
    /\ tiler = NoTiler
    /\ run = [at |-> "body", stack |-> <<[fn |-> from_fixed("main"), link |-> 0]>>]

\* a call in the body of the running function: Call(Name(label), actuals) of a
\* translated function
CallStep ==
    /\ pc = "running"
    /\ Len(run.stack) < MaxStack
    /\ \E site \in CallSites(DoneOf(Last(run.stack).fn).body) :
          /\ site[1] \in DoneLabels
          /\ Len(site[2]) > 0
          /\ run' = [run EXCEPT !.stack =
                        Append(@, [fn   |-> site[1],
                                   link |-> FrameValue(site[2][1], run.stack, Len(run.stack))])]
    /\ UNCHANGED <<pc, prog, chk, trn, unit, tiler>>

\* the running function returns
ReturnStep ==
    /\ pc = "running"
    /\ Len(run.stack) > 1
    /\ run' = [run EXCEPT !.stack = SubSeq(@, 1, Len(@) - 1)]
    /\ UNCHANGED <<pc, prog, chk, trn, unit, tiler>>

NextRun == CallStep \/ ReturnStep

SpecRun == InitRun /\ [][NextRun]_vars

\* the label of the function a function was declared in
LexParent(fn) ==
    With(CHOOSE i \in LogOf("fun") : trn.log[i][2] = fn, LAMBDA i : trn.log[i][3])

\* C21: in every sequence of calls among user functions the static link of
\* each activation points to an activation of the function that lexically
\* encloses the callee.
C21_StaticLinkIsLexicalParent ==
    pc = "running" =>
        \A k \in 2..Len(run.stack) :
            /\ run.stack[k].link \in 1..(k - 1)
            /\ run.stack[run.stack[k].link].fn = LexParent(run.stack[k].fn)


(***************************************************************************)
(* The layout of conditional jumps, from the translator to the tiler.      *)
(***************************************************************************)
\* the statement sequences in a tree, statement or expression
RECURSIVE SeqsOf(_)
SeqsOf(x) ==
    CASE x[1] = "Seq"   -> {x[2]} \cup UNION {SeqsOf(x[2][i]) : i \in 1..Len(x[2])}
      [] x[1] \in {"Move", "ESeq"} -> SeqsOf(x[2]) \cup SeqsOf(x[3])
      [] x[1] \in {"Exp", "Mem", "Ex", "Nx", "Jump"} -> SeqsOf(x[2])
      [] x[1] \in {"Binop", "CJump", "Cx"} -> SeqsOf(x[2]) \cup SeqsOf(x[4])
      [] x[1] = "Call"  -> SeqsOf(x[2]) \cup UNION {SeqsOf(x[3][i]) : i \in 1..Len(x[3])}
      [] OTHER          -> {}
EmittedSeqs == UNION {SeqsOf(trn.done[k].body) : k \in 1..Len(trn.done)}

\* the places of the tests of If, While and For in a sequence: the CJumps
\* that are not the ones From<Tree> makes of a Cx
ControlTests(s) ==
    {i \in 1..Len(s) : s[i][1] = "CJump" /\ s[i][6][2] \notin {"CX_FALSE", "CX_EXIT"}}

\* the places in asm of the jumps, conditional or not, to label l
JumpsTo(asm, l) == {j \in 1..Len(asm) : asm[j][1] \in {"Jmp", "Jcc"} /\ asm[j][Len(asm[j])] = l}

\* the tiler gives for the test c a cmp and then one jump on the condition to
\* the true target, and no jump to the false target
TestTiled(c) ==
    With(tile_stm(c, TilerDefault), LAMBDA t :
        t.panic = "" =>
            /\ Len(t.asm) >= 2
            /\ t.asm[Len(t.asm) - 1][1] = "Cmp"
            /\ t.asm[Len(t.asm)] = AsmJcc(relop_into(c[3]), c[5])
            /\ {j \in 1..Len(t.asm) : t.asm[j][1] \in {"Jmp", "Jcc"}} = {Len(t.asm)}
            /\ {j \in 1..Len(t.asm) : t.asm[j][1] = "Cmp"} = {Len(t.asm) - 1}
            /\ JumpsTo(t.asm, c[6]) = {})

\* C23: in every sequence emitted for If, While and For the statement right
\* after each CJump is the Label of that CJump's false target, and the tiler
\* turns the CJump into a cmp followed by one conditional jump to the true
\* target, with no jump to the false target.
C23_CJumpFallsThroughToFalseTarget ==
    Translated =>
        \A s \in EmittedSeqs : \A i \in ControlTests(s) :
            /\ i < Len(s)
            /\ s[i + 1] = SLabel(s[i][6])
            /\ TestTiled(s[i])

\* tests of an If with else, an If without, a While and a For are emitted,
\* and one of them is tiled to the end
C23_Witness ==
    /\ Translated
    /\ \A h \in {"FALSE_BRANCH", "EXIT_IF", "EXIT_WHILE", "EXIT_FOR"} :
           \E s \in EmittedSeqs : \E i \in ControlTests(s) : s[i][5][2] = h
    /\ \E s \in EmittedSeqs : \E i \in ControlTests(s) :
           /\ tile_stm(s[i], TilerDefault).panic = ""
           /\ Len(tile_stm(s[i], TilerDefault).asm) >= 2


(***************************************************************************)
(* The layout of records, from the literal to the field access.            *)
(***************************************************************************)
\* the statements and expressions in a tree, statement or expression
RECURSIVE Terms(_)
Terms(x) ==
    {x} \cup
    CASE x[1] = "Seq"   -> UNION {Terms(x[2][i]) : i \in 1..Len(x[2])}
      [] x[1] \in {"Move", "ESeq"} -> Terms(x[2]) \cup Terms(x[3])
      [] x[1] \in {"Exp", "Mem", "Ex", "Nx", "Jump"} -> Terms(x[2])
      [] x[1] \in {"Binop", "CJump", "Cx"} -> Terms(x[2]) \cup Terms(x[4])
      [] x[1] = "Call"  -> Terms(x[2]) \cup UNION {Terms(x[3][i]) : i \in 1..Len(x[3])}
      [] OTHER          -> {}
MainTerms == Terms(Last(trn.done).body)

\* the stores of a literal's fields, the sizes asked of malloc, and the reads
\* of fields
IsCell(e)   == e[1] = "Mem" /\ e[2][1] = "Binop" /\ e[2][3] = "Add" /\ e[2][4][1] = "Const"
FieldStores == {m \in MainTerms : m[1] = "Move" /\ IsCell(m[3]) /\ m[3][2][2][1] = "Temp"}
MallocSizes == {c[3][1] : c \in {m \in MainTerms : m[1] = "Call" /\ m[2] = IName(from_fixed("malloc"))}}
FieldReads  == {e[2] : e \in {m \in MainTerms : m[1] = "Exp" /\ IsCell(m[2])}}

RoundFields == prog[2][2][5][3]
RoundField  == prog[3][2][3]

\* C24: a record literal asks malloc for WORD_SIZE times its number of fields
\* and stores its i-th listed field at offset i times WORD_SIZE, and a read of
\* r.f after r was made from a literal reads the cell that holds the value the
\* literal gave for the field named f.
C24_RecordLayoutRoundTrips ==
    (Translated /\ prog \in RoundProgs) =>
        /\ MallocSizes = {IConst(WORD_SIZE * Len(RoundFields))}
        /\ \A i \in 1..Len(RoundFields) :
               \E m \in FieldStores : /\ m[2] = IConst(RoundFields[i][2][2])
                                      /\ m[3][2][4] = IConst(WORD_SIZE * (i - 1))
        /\ \A e \in FieldReads : \A m \in FieldStores :
               m[3][2][4] = e[2][4] =>
                   \E i \in 1..Len(RoundFields) : /\ RoundFields[i][1] = RoundField
                                                  /\ m[2] = IConst(RoundFields[i][2][2])


(***************************************************************************)
(* Calls between the functions of one group.                               *)
(***************************************************************************)
\* the places in the log of the functions declared in groups of two
GroupFuns == {i \in LogOf("fun") : Len(trn.log[i][6]) = 2}
\* the label given to the function named `name` of the group of entry i
GroupLabel(i, name) ==
    With(CHOOSE j \in GroupFuns : /\ trn.log[j][6] = trn.log[i][6]
                                  /\ trn.log[j][4] = trn.log[i][4]
                                  /\ trn.log[j][6][trn.log[j][5]].name = name,
         LAMBDA j : trn.log[j][2])

\* C25: a call in the body of a function of a group to a function of the same
\* group, declared before or after it, is translated without internal error
\* to a Call on the label of that function of the group, with the static link
\* put before its arguments.
C25_GroupCallsResolveInGroup ==
    (pc = "translated" /\ prog \in GroupProgs) =>
        /\ trn.panic = ""
        /\ \A i \in GroupFuns :
               \A site \in CallSites(DoneOf(trn.log[i][2]).body) :
                   /\ site[1] = GroupLabel(i, site[1][2])
                   /\ site[2] = <<RBP>>


(***************************************************************************)
(* What the instructions of a tiled expression write.                      *)
(***************************************************************************)
\* the operand an instruction writes, as a Value; NoValue when it writes none
UnaryValue(u) == IF u[1] = "R" THEN ValueReg(u[2]) ELSE ValueMem(u[2])
Written(ins) ==
    CASE ins[1] = "Mov" -> BinaryDest(ins[2])
      [] ins[1] = "Bin" -> BinaryDest(ins[3])
      [] ins[1] = "Un"  -> UnaryValue(ins[3])
      [] OTHER          -> NoValue
\* the temp b and the cell at b, as the tiler names them
ReadValue(o) == IF o[1] = "Temp" THEN ValueReg(o[2]) ELSE ValueMem(MemR(o[2][2]))
\* Move(x, Temp a) is tiled without failure and no instruction writes o
LeavesAlone(x, o) ==
    MoveTiled(x) =>
        /\ tiler.panic = ""
        /\ \A i \in 1..Len(tiler.asm) : Written(tiler.asm[i]) # ReadValue(o)

\* C26: the instructions tiled for a := o + 1, a := o - 1, a := 0 - o,
\* a := 5 + o and a := o - 5, o being a temp or a memory cell other than a,
\* have no instruction whose destination is o.
C26_TilingWritesNoOperand ==
    \A o \in IRReadOperands :
        /\ LeavesAlone(IBinop(o, "Add", IConst(1)), o)
        /\ LeavesAlone(IBinop(o, "Sub", IConst(1)), o)
        /\ LeavesAlone(IBinop(IConst(0), "Sub", o), o)
        /\ LeavesAlone(IBinop(IConst(5), "Add", o), o)
        /\ LeavesAlone(IBinop(o, "Sub", IConst(5)), o)


(***************************************************************************)
(* The actuals of a call between their loading and the call.               *)
(***************************************************************************)
\* what an instruction overwrites: its destination, RDX for cqo, RAX and RDX
\* for mul and div, and the registers a callee need not keep for call
Clobbers(ins) ==
    {Written(ins)} \cup
    CASE ins[1] = "Cqo"             -> {ValueReg(Reg("RDX"))}
      [] ins[1] \in {"Mul", "Div"}  -> {ValueReg(Reg("RAX")), ValueReg(Reg("RDX"))}
      [] ins[1] = "Call"            -> {ValueReg(Reg(CallRegs[i])) : i \in 1..6}
                                         \cup {ValueReg(Reg("RAX"))}
      [] OTHER                      -> {}
\* where the i-th actual is loaded, as a Value
ArgValue(i) == IF i <= 6 THEN ValueReg(ArgPlace(i)) ELSE ValueMem(ArgPlace(i))
\* Move(Call(Name f, args), Temp a) is tiled without failure
CallMoved ==
    /\ pc = "canonical" /\ tiler.at = 1 /\ tiler.panic = ""
    /\ Len(unit) = 1
    /\ unit[1][1] = "Move" /\ unit[1][3] = TempA
    /\ unit[1][2][1] = "Call" /\ unit[1][2][2][1] = "Name"
\* the place in asm of the move that loads the i-th actual of call: the
\* instructions up to it are those of the call of the first i actuals
LoadAt(call, i) ==
    Len(tile_exp(ICall(call[2], SubSeq(call[3], 1, i)), TilerDefault).t.asm) - 2

\* C27: in the instructions of a call, between the move that loads the i-th
\* actual into its register or stack slot and the call instruction, no
\* instruction overwrites that register or slot.
C27_LoadedActualsSurvive ==
    CallMoved =>
        \A i \in 1..Len(unit[1][2][3]) :
            \A j \in (LoadAt(unit[1][2], i) + 1)..(Len(tiler.asm) - 3) :
                ArgValue(i) \notin Clobbers(tiler.asm[j])


(***************************************************************************)
(* The targets of the jumps of a function.                                 *)
(***************************************************************************)
\* the labels the body of the k-th finished frame places and goes to
PlacedIn(k)  == {m[2] : m \in {x \in LabelMarks(trn.done[k].body) : x[1] = "def"}}
TargetsIn(k) == {m[2] : m \in {x \in LabelMarks(trn.done[k].body) : x[1] = "use"}}

\* C28: in what is translated for an accepted program, every label a Jump or
\* CJump of a function's body goes to is placed by a Label statement of the
\* body of the same function.
C28_JumpsStayInFunction ==
    Translated => \A k \in 1..Len(trn.done) : TargetsIn(k) \subseteq PlacedIn(k)


(***************************************************************************)
(* The statements translated for a for loop over constants, executed one   *)
(* at a time.  run.ip is the place of the next statement in the sequence,  *)
(* run.v the value of the index, the only location the statements name,    *)
(* and run.count the number of times the body was executed.  Values are    *)
(* signed integers of 32 bits.                                             *)
(***************************************************************************)
IntMax   == 2147483647
IntMin   == -IntMax - 1
MaxIters == 4    \* executions of the body followed

\* for i := lo to hi do (), lo and hi near each other at the least, at the
\* middle and at the greatest of the values
ForBounds   == {{IntMin, IntMin + 1}, {-1, 0, 1, 2}, {IntMax - 2, IntMax - 1, IntMax}}
ForRunProgs ==
    UNION {{For("i", FALSE, IntE(lo), IntE(hi), UnitE) : lo \in B, hi \in B} : B \in ForBounds}

\* a + b on i32, wrapping
wrapping_add(a, b) ==
    IF b > 0 /\ a > IntMax - b THEN IntMin + (b - (IntMax - a) - 1)
    ELSE IF b < 0 /\ a < IntMin - b THEN IntMax - ((IntMin - a) - b - 1)
    ELSE a + b

\* the statements of main, and the place of the Label statement of l
ForCode == Last(trn.done).body[2][2]
PlaceOf(l) == CHOOSE i \in 1..Len(ForCode) : ForCode[i] = SLabel(l)

\* the value of an expression over the index
RECURSIVE Eval(_, _)
Eval(e, v) ==
    CASE e[1] = "Const" -> e[2]
      [] e[1] = "Binop" /\ e[3] = "Add" -> wrapping_add(Eval(e[2], v), Eval(e[4], v))
      [] OTHER -> v
Holds(op, l, r) ==
    CASE op = "Gt" -> l > r
      [] op = "Lt" -> l < r
      [] op = "Eq" -> l = r
      [] OTHER     -> l # r

InitFor ==
    /\ pc = "executing"
    /\ prog \in ForRunProgs
    /\ chk = check(prog)
    /\ chk.err = ""
    /\ trn = translate(prog)
    /\ trn.panic = ""
    /\ unit = <<>>
    /\ tiler = NoTiler
    /\ run = [at |-> "for", ip |-> 1, v |-> 0, count |-> 0]

Fetched(kind) ==
    /\ pc = "executing"
    /\ run.ip <= Len(ForCode)
    /\ ForCode[run.ip][1] = kind

\* Move(src, index)
StepMove ==
    /\ Fetched("Move")
    /\ run' = [run EXCEPT !.v = Eval(ForCode[run.ip][2], run.v), !.ip = @ + 1]
    /\ UNCHANGED <<pc, prog, chk, trn, unit, tiler>>

\* Jump(Name l)
StepJump ==
    /\ Fetched("Jump")
    /\ run' = [run EXCEPT !.ip = PlaceOf(ForCode[run.ip][2][2])]
    /\ UNCHANGED <<pc, prog, chk, trn, unit, tiler>>

\* CJump(l, op, r, t, f): to t when l op r holds, to f when not
StepCJump ==
    /\ Fetched("CJump")
    /\ With(ForCode[run.ip], LAMBDA c :
           run' = [run EXCEPT !.ip =
                       IF Holds(c[3], Eval(c[2], run.v), Eval(c[4], run.v))
                         THEN PlaceOf(c[5]) ELSE PlaceOf(c[6])])
    /\ UNCHANGED <<pc, prog, chk, trn, unit, tiler>>

StepLabel ==
    /\ Fetched("Label")
    /\ run' = [run EXCEPT !.ip = @ + 1]
    /\ UNCHANGED <<pc, prog, chk, trn, unit, tiler>>

\* the body of the loop, ()
StepBody ==
    /\ Fetched("Exp")
    /\ run.count < MaxIters
    /\ run' = [run EXCEPT !.count = @ + 1, !.ip = @ + 1]
    /\ UNCHANGED <<pc, prog, chk, trn, unit, tiler>>

NextFor == StepMove \/ StepJump \/ StepCJump \/ StepLabel \/ StepBody

SpecFor == InitFor /\ [][NextFor]_vars

\* max(0, hi - lo + 1) for the loop of prog
ForTrips == Max({0, prog[5][2] - prog[4][2] + 1})

\* C29: the statements of for v := lo to hi do () execute the body
\* max(0, hi - lo + 1) times and then leave the loop, for all lo and hi of
\* 32 bits, hi = IntMax included, the increment wrapping on overflow.
C29_ForRunsExactly ==
    pc = "executing" =>
        /\ run.count <= ForTrips
        /\ run.ip > Len(ForCode) => run.count = ForTrips


(***************************************************************************)
(* The stacks of the translator across translate_exp and translate_dec.    *)
(***************************************************************************)
ProgFuns == FunDecs(prog, 1, <<>>)

\* the depths of the four stacks
Depths(st) == <<Len(st.frames), Len(st.loops), Len(st.fc), Len(st.tc)>>
\* the Translator as new, and inside a loop and a scope
InLoopAndScope ==
    [TranslatorNew EXCEPT !.loops = <<LabelFromStr("OUTER", 0)>>,
                          !.exits = <<LabelFromStr("OUTER", 0)>>,
                          !.fc = CtxPush(@), !.tc = CtxPush(@)]
EntryStates == {TranslatorNew, InLoopAndScope}
Balanced(st0, st) == st.panic = "" => (Depths(st) = Depths(st0) /\ st.loops = st0.loops)

\* the place in done of the frame labelled l
DonePlace(l) == CHOOSE k \in 1..Len(trn.done) : trn.done[k].frame.label = l

\* C30: translate_exp and translate_dec return with the frame stack, the
\* loop stack and the scopes of fc and tc as deep as on entry; the body of a
\* function is translated with as many frames on the stack as functions
\* enclose it, main counted, plus one; and translate returns one finished
\* frame for each function declaration and one for main, the frame of a
\* function before that of the function enclosing it, main's last.
C30_TranslatorStaysBalanced ==
    Translated =>
        /\ \A st0 \in EntryStates :
               /\ Balanced(st0, translate_exp(prog, st0).st)
               /\ prog[1] = "Let" =>
                      \A i \in 1..Len(prog[2]) : Balanced(st0, translate_dec(prog[2][i], st0).st)
        /\ trn.frames = <<>> /\ trn.loops = <<>>
        /\ Depths(trn) = <<0, 0, 1, 1>>
        /\ {<<trn.log[i][2][2], trn.log[i][4]>> : i \in LogOf("fun")}
               = {<<f[2], f[3]>> : f \in ProgFuns}
        /\ Cardinality(LogOf("fun")) = Cardinality(ProgFuns)
        /\ Len(trn.done) = Cardinality(ProgFuns) + 1
        /\ Cardinality(DoneLabels) = Len(trn.done)
        /\ Last(trn.done).frame.label = from_fixed("main")
        /\ \A i \in LogOf("fun") : DonePlace(trn.log[i][2]) < DonePlace(trn.log[i][3])

\* two functions, one inside the other, translated from both entry states
C30_Witness ==
    /\ Translated
    /\ \E f \in ProgFuns : f[3] = 2
    /\ Len(trn.done) >= 3
    /\ translate_exp(prog, InLoopAndScope).st.panic = ""

=============================================================================
